---- MODULE Spec2Model ----
(***************************************************************************)
(* Model of the extraction/normalization engine of                         *)
(* error-object-from-payload (src/src/index.ts): from(), the pre-flight    *)
(* input checks, error-array detection, per-candidate field extraction     *)
(* with the transform hook, and result aggregation.                        *)
(*                                                                         *)
(* JavaScript values are tagged records; objects are sequences of          *)
(* key/value pairs (insertion order, as Object.entries sees them).         *)
(***************************************************************************)
EXTENDS Integers, Sequences, FiniteSets, TLC

VARIABLES
  value,         \* the payload of the current call of from()
  withOptions,   \* the options argument of the current call
  checksFailed,  \* from()'s local checksFailed
  builtSummaries, \* from()'s local summaries (Undefined while not assigned)
  result,        \* what the call returned (Thrown when it threw)
  previous,      \* what the call before it, with the same arguments, returned
  helper,        \* the call of an exported helper: its name, arguments and return
  SHOW_ERROR_LOGS, \* the process-wide toggle ErrorObject.SHOW_ERROR_LOGS
  logs,          \* per call of from() since the last Done: the toggle it read
                 \* and the lines it printed
  after,         \* the payload, the options argument and DEFAULT_BUILD_OPTIONS
                 \* as the last call of from() left them
  pc             \* "idle" before a call, "returned" after from(), "helper"
                 \* after a helper

vars ==
  <<value, withOptions, checksFailed, builtSummaries, result, previous, helper,
    SHOW_ERROR_LOGS, logs, after, pc>>

-----------------------------------------------------------------------------
(* JavaScript values *)

Undefined == [t |-> "undefined"]

Null == [t |-> "null"]

Bool(b) == [t |-> "boolean", b |-> b]

Num(n) == [t |-> "number", k |-> "finite", n |-> n]

NaN == [t |-> "number", k |-> "NaN", n |-> 0]

Infinity == [t |-> "number", k |-> "Infinity", n |-> 0]

Fraction == [t |-> "number", k |-> "fraction", n |-> 0]

Str(s) == [t |-> "string", s |-> s]

Arr(a) == [t |-> "array", a |-> a]

Obj(o) == [t |-> "object", o |-> o]

Fn(f, arg) == [t |-> "function", f |-> f, arg |-> arg]

P(k, v) == [k |-> k, v |-> v]

\* the outcome "an exception was thrown" of an evaluation
Thrown == [t |-> "throw"]

IsThrown(v) == v.t = "throw"

Typeof(v) ==
  CASE v.t = "undefined" -> "undefined"
    [] v.t = "null" -> "object"
    [] v.t = "array" -> "object"
    [] v.t = "object" -> "object"
    [] v.t = "summary" -> "object"
    [] v.t = "boolean" -> "boolean"
    [] v.t = "number" -> "number"
    [] v.t = "string" -> "string"
    [] v.t = "function" -> "function"

IsArray(v) == v.t = "array"

IsNullish(v) == v.t = "undefined" \/ v.t = "null"

IsNaN(v) == v.t = "number" /\ v.k = "NaN"

\* ToBoolean
Truthy(v) ==
  CASE v.t = "undefined" -> FALSE
    [] v.t = "null" -> FALSE
    [] v.t = "boolean" -> v.b
    [] v.t = "number" -> ~(v.k = "NaN" \/ (v.k = "finite" /\ v.n = 0))
    [] v.t = "string" -> v.s # ""
    [] OTHER -> TRUE

\* a === b for the values rules compare: primitives by value (NaN equals
\* nothing), objects and arrays by identity (two distinct objects never equal)
StrictEquals(a, b) ==
  /\ a.t = b.t
  /\ a.t \in {"undefined", "null", "boolean", "number", "string"}
  /\ ~IsNaN(a)
  /\ a = b

-----------------------------------------------------------------------------
(* Strings *)

\* const x = e; ...: the rest of a block with e bound to a local
With(e, F(_)) == F(e)

Char(s, i) == SubSeq(s, i, i)

DigitChars == {"0", "1", "2", "3", "4", "5", "6", "7", "8", "9"}

HexDigitChars == DigitChars \cup {"a", "b", "c", "d", "e", "f"}

RECURSIVE IndexIn(_, _, _)
\* first position >= i of character c in s, or 0
IndexIn(s, c, i) ==
  IF i > Len(s) THEN 0
  ELSE IF Char(s, i) = c THEN i
  ELSE IndexIn(s, c, i + 1)

\* String.prototype.replace(c, ''): removes the FIRST occurrence of c only
ReplaceFirst(s, c) ==
  With(IndexIn(s, c, 1), LAMBDA i :
    IF i = 0 THEN s ELSE SubSeq(s, 1, i - 1) \o SubSeq(s, i + 1, Len(s)))

RECURSIVE Split(_, _)
\* String.prototype.split(c)
Split(s, c) ==
  With(IndexIn(s, c, 1), LAMBDA i :
    IF i = 0 THEN <<s>>
    ELSE <<SubSeq(s, 1, i - 1)>> \o Split(SubSeq(s, i + 1, Len(s)), c))

DigitValue(c) == IndexIn("0123456789", c, 1) - 1

IsDigits(s) == Len(s) > 0 /\ \A i \in 1..Len(s) : Char(s, i) \in DigitChars

RECURSIVE DecimalValue(_)
DecimalValue(s) ==
  IF Len(s) = 0 THEN 0
  ELSE 10 * DecimalValue(SubSeq(s, 1, Len(s) - 1)) + DigitValue(Char(s, Len(s)))

IsHexDigits(s) == Len(s) > 0 /\ \A i \in 1..Len(s) : Char(s, i) \in HexDigitChars

RECURSIVE HexValue(_)
HexValue(s) ==
  IF Len(s) = 0 THEN 0
  ELSE 16 * HexValue(SubSeq(s, 1, Len(s) - 1)) + (IndexIn("0123456789abcdef", Char(s, Len(s)), 1) - 1)

RECURSIVE Pow10(_)
Pow10(e) == IF e = 0 THEN 1 ELSE 10 * Pow10(e - 1)

RECURSIVE TrimLeft(_)
TrimLeft(s) == IF Len(s) > 0 /\ Char(s, 1) = " " THEN TrimLeft(SubSeq(s, 2, Len(s))) ELSE s

RECURSIVE TrimRight(_)
TrimRight(s) ==
  IF Len(s) > 0 /\ Char(s, Len(s)) = " " THEN TrimRight(SubSeq(s, 1, Len(s) - 1)) ELSE s

\* mantissa 'e' exponent, the exponent signed when neg
Scientific(mant, ex, neg) ==
  IF mant = 0 THEN Num(0)
  ELSE IF neg /\ ex > 0 THEN Fraction
  ELSE Num(mant * Pow10(ex))

\* the part of an exponent after its sign
ExponentDigits(rest) ==
  IF Len(rest) > 0 /\ Char(rest, 1) \in {"-", "+"} THEN SubSeq(rest, 2, Len(rest)) ELSE rest

\* s, whose character e is its first 'e'
ExponentForm(s, mant, rest) ==
  IF IsDigits(mant) /\ IsDigits(ExponentDigits(rest))
    THEN Scientific(DecimalValue(mant), DecimalValue(ExponentDigits(rest)),
                    Char(rest, 1) = "-")
    ELSE NaN

\* an unsigned decimal literal: digits, or digits 'e' [+-] digits
UnsignedDecimal(s) ==
  IF IsDigits(s) THEN Num(DecimalValue(s))
  ELSE IF s = "Infinity" THEN Infinity
  ELSE With(IndexIn(s, "e", 1), LAMBDA e :
         IF e = 0 THEN NaN
         ELSE ExponentForm(s, SubSeq(s, 1, e - 1), SubSeq(s, e + 1, Len(s))))

\* -u
Negate(u) == IF u.k = "finite" THEN Num(0 - u.n) ELSE u

\* Number(s) for a trimmed string s
TrimmedToNumber(s) ==
  IF s = "" THEN Num(0)
  ELSE IF Len(s) > 2 /\ SubSeq(s, 1, 2) = "0x" /\ IsHexDigits(SubSeq(s, 3, Len(s)))
    THEN Num(HexValue(SubSeq(s, 3, Len(s))))
  ELSE With(UnsignedDecimal(IF Char(s, 1) \in {"-", "+"} THEN SubSeq(s, 2, Len(s)) ELSE s),
            LAMBDA u : IF Char(s, 1) = "-" THEN Negate(u) ELSE u)

\* Number(key) for a string key
ToNumber(key) == TrimmedToNumber(TrimRight(TrimLeft(key)))

\* Number.prototype.toString / the property key a number indexes with
NumberToString(v) ==
  CASE v.k = "NaN" -> "NaN"
    [] v.k = "Infinity" -> "Infinity"
    [] v.k = "fraction" -> "0.5"
    [] v.k = "finite" -> IF v.n < 0 THEN "-" \o ToString(0 - v.n) ELSE ToString(v.n)

-----------------------------------------------------------------------------
(* Property access *)

RECURSIVE Lookup(_, _, _)
\* own property k of the pair list o (Undefined when missing)
Lookup(o, k, i) ==
  IF i > Len(o) THEN Undefined
  ELSE IF o[i].k = k THEN o[i].v
  ELSE Lookup(o, k, i + 1)

HasKey(o, k) == \E i \in 1..Len(o) : o[i].k = k

\* acc[key] for a string key on an object or an array (plain data)
Get(acc, key) ==
  CASE acc.t = "object" -> Lookup(acc.o, key, 1)
    [] acc.t = "array" ->
         IF key = "length" THEN Num(Len(acc.a))
         ELSE IF IsDigits(key)
           THEN With(DecimalValue(key), LAMBDA n :
                  IF ToString(n) = key /\ n < Len(acc.a) THEN acc.a[n + 1] ELSE Undefined)
         ELSE Undefined
    [] OTHER -> Undefined

\* const resolvedKey = isNaN(numericKey) ? key : numericKey
ResolvedKey(key, numericKey) ==
  IF IsNaN(numericKey) THEN key ELSE NumberToString(numericKey)

\* one call of the reduce() callback of findNestedValueForPath
ReduceStep(acc, key) ==
  IF Len(key) = 0 THEN acc
  ELSE IF Truthy(acc) /\ Typeof(acc) = "object"
    THEN Get(acc, ResolvedKey(key, ToNumber(key)))
  ELSE Undefined

RECURSIVE ReduceKeys(_, _, _)
\* the reduce() of findNestedValueForPath over keys[i..]
ReduceKeys(keys, i, acc) ==
  IF i > Len(keys) THEN acc
  ELSE ReduceKeys(keys, i + 1, ReduceStep(acc, keys[i]))

\* findNestedValueForPath(value, path); path is a JS value (a string in
\* every call the engine makes). path?.replace is no function on a truthy
\* path that is no string: calling it is a TypeError
findNestedValueForPath(v, path) ==
  IF ~Truthy(path) \/ ~Truthy(v) THEN Undefined
  ELSE IF path.t # "string" THEN Thrown
  ELSE With(ReplaceFirst(ReplaceFirst(path.s, "["), "]"), LAMBDA normalizedPath :
         IF normalizedPath = "" THEN Undefined
         ELSE ReduceKeys(Split(normalizedPath, "."), 1, v))

-----------------------------------------------------------------------------
(* JSON *)

RECURSIVE JSONText(_)
RECURSIVE JSONElements(_, _)
RECURSIVE JSONMembers(_, _, _)
\* the text JSON.stringify produces for v nested in an array ("null" for
\* what JSON cannot represent)
JSONText(v) ==
  CASE v.t = "string" -> "\"" \o v.s \o "\""
    [] v.t = "number" -> IF v.k \in {"NaN", "Infinity"} THEN "null" ELSE NumberToString(v)
    [] v.t = "boolean" -> IF v.b THEN "true" ELSE "false"
    [] v.t = "array" -> "[" \o JSONElements(v.a, 1) \o "]"
    [] v.t = "object" -> "{" \o JSONMembers(v.o, 1, TRUE) \o "}"
    [] OTHER -> "null"

JSONElements(a, i) ==
  IF i > Len(a) THEN ""
  ELSE (IF i > 1 THEN "," ELSE "") \o JSONText(a[i]) \o JSONElements(a, i + 1)

\* members whose value is undefined or a function are left out
JSONMembers(o, i, first) ==
  IF i > Len(o) THEN ""
  ELSE IF o[i].v.t \in {"undefined", "function"} THEN JSONMembers(o, i + 1, first)
  ELSE (IF first THEN "" ELSE ",") \o "\"" \o o[i].k \o "\":" \o JSONText(o[i].v)
       \o JSONMembers(o, i + 1, FALSE)

\* JSON.stringify(found) for an array or object
JSONStringify(v) == Str(JSONText(v))

\* the values JSON texts of the model decode to
JSONUniverse ==
  { Obj(<<P("code", Str("E9")), P("message", Str("m9"))>>),
    Obj(<<>>),
    Arr(<<>>),
    Num(5),
    Str("x"),
    Bool(TRUE),
    Null }

\* JSON.parse(s): the value whose JSON text is s; throws SyntaxError when s
\* is no JSON text
JSONParse(s) ==
  IF \E v \in JSONUniverse : JSONText(v) = s
    THEN CHOOSE v \in JSONUniverse : JSONText(v) = s
    ELSE Thrown

-----------------------------------------------------------------------------
(* Objects *)

RECURSIVE IndexPairs(_, _)
IndexPairs(a, i) ==
  IF i > Len(a) THEN <<>> ELSE <<P(ToString(i - 1), a[i])>> \o IndexPairs(a, i + 1)

RECURSIVE CharPairs(_, _)
CharPairs(s, i) ==
  IF i > Len(s) THEN <<>> ELSE <<P(ToString(i - 1), Str(Char(s, i)))>> \o CharPairs(s, i + 1)

\* own enumerable properties, in order: what {...v} copies
OwnPairs(v) ==
  CASE v.t = "object" -> v.o
    [] v.t = "array" -> IndexPairs(v.a, 1)
    [] v.t = "string" -> CharPairs(v.s, 1)
    [] OTHER -> <<>>

\* Object.entries(v): throws TypeError for undefined and null
ObjectEntries(v) == IF IsNullish(v) THEN Thrown ELSE Arr(OwnPairs(v))

RECURSIVE SetPair(_, _, _, _)
SetPair(o, k, v, i) ==
  IF i > Len(o) THEN Append(o, P(k, v))
  ELSE IF o[i].k = k THEN [o EXCEPT ![i] = P(k, v)]
  ELSE SetPair(o, k, v, i + 1)

RECURSIVE SpreadInto(_, _, _)
\* { ...a, ...b }: the keys of a keep their position, the values of b win
SpreadInto(a, b, i) ==
  IF i > Len(b) THEN a ELSE SpreadInto(SetPair(a, b[i].k, b[i].v, 1), b, i + 1)

-----------------------------------------------------------------------------
(* Default options *)

RECURSIVE MapPrefix(_, _, _)
\* array.map((s) => (typeof s === 'string' ? `${prefix}.${s}` : s))
MapPrefix(prefix, a, i) ==
  IF i > Len(a) THEN <<>>
  ELSE <<IF a[i].t = "string" THEN Str(prefix \o "." \o a[i].s) ELSE a[i]>>
       \o MapPrefix(prefix, a, i + 1)

RECURSIVE PushPrefixes(_, _, _, _)
PushPrefixes(prefixes, a, i, res) ==
  IF i > Len(prefixes) THEN res
  ELSE PushPrefixes(prefixes, a, i + 1,
                    res \o MapPrefix(IF prefixes[i].t = "string" THEN prefixes[i].s
                                     ELSE JSONText(prefixes[i]), a, 1))

\* addPrefixPathVariants taking the first prefix of a list only
AddFirstPrefixVariants(prefix, array) ==
  IF prefix.t = "string" THEN Arr(array.a \o MapPrefix(prefix.s, array.a, 1))
  ELSE IF prefix.t = "array" /\ Len(prefix.a) > 0 /\ prefix.a[1].t = "string"
    THEN Arr(array.a \o MapPrefix(prefix.a[1].s, array.a, 1))
  ELSE array

addPrefixPathVariants(prefix, array) ==
  IF prefix.t = "string" THEN Arr(array.a \o MapPrefix(prefix.s, array.a, 1))
  ELSE IF prefix.t = "array" /\ Len(prefix.a) > 0 /\ prefix.a[1].t = "string"
    THEN Arr(PushPrefixes(prefix.a, array.a, 1, array.a))
  ELSE array

DefaultTransform == Fn("default", Undefined)

DEFAULT_BUILD_OPTIONS ==
  Obj(<<
    P("pathToErrors", Arr(<<Str("errors"), Str("errs")>>)),
    P("pathToCode", addPrefixPathVariants(Str("error"),
        Arr(<<Str("code"), Str("err_code"), Str("errorCode"), Str("error_code")>>))),
    P("pathToNumberCode", addPrefixPathVariants(Str("error"),
        Arr(<<Str("numberCode"), Str("err_number_code"), Str("errorNumberCode"),
              Str("error_number_code")>>))),
    P("pathToMessage", addPrefixPathVariants(Str("error"),
        Arr(<<Str("message"), Str("err_message"), Str("errorMessage"),
              Str("error_message")>>))),
    P("pathToDetails", addPrefixPathVariants(Str("error"),
        Arr(<<Str("details"), Str("err_details"), Str("errorDetails"),
              Str("error_details")>>))),
    P("pathToDomain", addPrefixPathVariants(Str("error"),
        Arr(<<Str("domain"), Str("errorDomain"), Str("error_domain"), Str("err_domain"),
              Str("type")>>))),
    P("transform", DefaultTransform)
  >>)

\* NewCode never taking the number code
NewCodeUnchanged(code, v) == code

\* the transform of DEFAULT_BUILD_OPTIONS
\* let newCode = state.code; ... newCode = value.toString()
NewCode(code, v) ==
  IF IsNullish(code) /\ ~IsNullish(v)
    THEN (IF v.t = "number" THEN Str(NumberToString(v)) ELSE v)
    ELSE code

ApplyDefaultTransform(beforeTransform) ==
  Obj(SetPair(beforeTransform.o, "code",
              NewCode(Get(beforeTransform, "code"), Get(beforeTransform, "numberCode")), 1))

\* options.transform(beforeTransform, objectToParse), for the transform
\* functions of the model:
\*   default      the transform of DEFAULT_BUILD_OPTIONS
\*   throws       a transform that throws
\*   returns(x)   a transform that returns x whatever it is given
\*   merge(o)     (beforeTransform) => ({ ...beforeTransform, ...o })
ApplyTransform(fn, beforeTransform, objectToParse) ==
  CASE fn.f = "default" -> ApplyDefaultTransform(beforeTransform)
    [] fn.f = "throws" -> Thrown
    [] fn.f = "returns" -> fn.arg
    [] fn.f = "merge" -> Obj(SpreadInto(beforeTransform.o, OwnPairs(fn.arg), 1))

-----------------------------------------------------------------------------
(* Input validator *)

\* rule.exists ? miss : !miss, for the test a rule makes
Fails(rule, miss) == IF Truthy(Get(rule, "exists")) THEN miss ELSE ~miss

\* the body of the loop over checkInputObjectForValues: TRUE when the rule
\* fails
ValuesRuleFails(rule, foundValue) == Fails(rule, ~StrictEquals(foundValue, Get(rule, "value")))

\* the body of the loop over checkInputObjectForTypes: the code the rule
\* fails with, or Undefined
TypesRuleFailure(rule, foundValue) ==
  IF Truthy(Get(rule, "valueIsArray")) /\ Fails(rule, ~IsArray(foundValue))
    THEN Str("checkInputObjectForTypesValueIsArrayFailed")
  ELSE IF Fails(rule, ~StrictEquals(Str(Typeof(foundValue)), Get(rule, "type")))
    THEN Str("checkInputObjectForTypesFailed")
  ELSE Undefined

\* the body of the loop over checkInputObjectForKeys: TRUE when the rule
\* fails
KeysRuleFails(rule, foundValue) == Fails(rule, ~Truthy(foundValue))

\* one iteration of the loop of rule class name: the failure code, Undefined
\* when the rule passes, Thrown when reading the rule throws
CheckRule(name, rule, foundValue) ==
  IF IsNullish(rule) THEN Thrown
  ELSE CASE name = "checkInputObjectForValues" ->
              IF ValuesRuleFails(rule, foundValue)
                THEN Str("checkInputObjectForValuesFailed") ELSE Undefined
         [] name = "checkInputObjectForTypes" -> TypesRuleFailure(rule, foundValue)
         [] name = "checkInputObjectForKeys" ->
              IF KeysRuleFails(rule, foundValue)
                THEN Str("checkInputObjectForKeysFailed") ELSE Undefined

RECURSIVE CheckRules(_, _, _, _)
\* the loop over Object.entries(options[name])
CheckRules(input, name, entries, i) ==
  IF i > Len(entries) THEN Undefined
  ELSE With(CheckRule(name, entries[i].v, findNestedValueForPath(input, Str(entries[i].k))),
            LAMBDA failure :
              IF failure # Undefined THEN failure
              ELSE CheckRules(input, name, entries, i + 1))

\* one rule class of checkInputForInitialObject: the `in` test, the typeof
\* test, Object.entries and the loop
CheckRuleSet(input, options, name) ==
  IF ~HasKey(options.o, name) THEN Undefined
  ELSE IF Typeof(Get(options, name)) # "object" THEN Str(name \o "IsNotAnObject")
  ELSE With(ObjectEntries(Get(options, name)), LAMBDA entries :
         IF IsThrown(entries) THEN Thrown ELSE CheckRules(input, name, entries.a, 1))

RuleClasses == <<"checkInputObjectForValues", "checkInputObjectForTypes", "checkInputObjectForKeys">>

\* CheckRuleSets stopping after its first rule class
CheckFirstRuleSetOnly(input, options, c) == CheckRuleSet(input, options, RuleClasses[c])

RECURSIVE CheckRuleSetsBackwards(_, _, _)
\* CheckRuleSets taking the rule classes last to first
CheckRuleSetsBackwards(input, options, c) ==
  IF c > Len(RuleClasses) THEN Undefined
  ELSE With(CheckRuleSet(input, options, RuleClasses[Len(RuleClasses) + 1 - c]),
            LAMBDA failure :
              IF failure # Undefined THEN failure
              ELSE CheckRuleSetsBackwards(input, options, c + 1))

RECURSIVE CheckRuleSets(_, _, _)
\* the three rule classes in the order of the code; the first failure (or
\* exception) ends the function
CheckRuleSets(input, options, c) ==
  IF c > Len(RuleClasses) THEN Undefined
  ELSE With(CheckRuleSet(input, options, RuleClasses[c]), LAMBDA failure :
         IF failure # Undefined THEN failure
         ELSE CheckRuleSets(input, options, c + 1))

\* the try block of checkInputForInitialObject: a failure code, Undefined
\* when it runs to its end, Thrown when it throws
CheckInputTry(input, withOpts) ==
  IF IsNullish(input) THEN Str("checkIsNullish")
  ELSE IF Typeof(input) # "object" THEN Str("checkIsNotAnObject")
  ELSE CheckRuleSets(input, IF IsNullish(withOpts) THEN DEFAULT_BUILD_OPTIONS ELSE withOpts, 1)

\* CatchCheckInput reporting the exception as a failed check
CatchAsFailedCheck(r) == IF IsThrown(r) THEN Str("checkIsNotAnObject") ELSE r

\* the catch block: the exception is swallowed and the function returns
\* undefined
CatchCheckInput(r) == IF IsThrown(r) THEN Undefined ELSE r

\* checkInputForInitialObject with the exception of its try block escaping
CheckInputNoCatch(input, withOpts) == CheckInputTry(input, withOpts)

checkInputForInitialObject(input, withOpts) == CatchCheckInput(CheckInputTry(input, withOpts))

-----------------------------------------------------------------------------
(* Field extractor *)

NotFound == [t |-> "found", path |-> Undefined, before |-> Undefined]

\* StringPathValue turning numbers into strings
StringPathValueCoercing(path, found) ==
  IF ~IsNullish(found) /\ Typeof(found) = "string"
    THEN [t |-> "found", path |-> path, before |-> found]
  ELSE IF ~IsNullish(found) /\ Typeof(found) = "number"
    THEN [t |-> "found", path |-> path, before |-> Str(NumberToString(found))]
  ELSE IF ~IsNullish(found) /\ (IsArray(found) \/ Typeof(found) = "object")
    THEN [t |-> "found", path |-> path, before |-> JSONStringify(found)]
  ELSE NotFound

\* the body of the loop over a pathTo{Code,Message,Details,Domain} list:
\* what the path contributes, NotFound when the loop goes on
StringPathValue(path, found) ==
  IF ~IsNullish(found) /\ Typeof(found) = "string"
    THEN [t |-> "found", path |-> path, before |-> found]
  ELSE IF ~IsNullish(found) /\ (IsArray(found) \/ Typeof(found) = "object")
    THEN [t |-> "found", path |-> path, before |-> JSONStringify(found)]
  ELSE NotFound

RECURSIVE ScanStringPathsLast(_, _, _, _)
\* ScanStringPaths with the last usable path winning
ScanStringPathsLast(objectToParse, paths, i, field) ==
  IF i > Len(paths) THEN NotFound
  ELSE IF Typeof(paths[i]) # "string" THEN Str("pathTo" \o field \o "ValuesAreNotStrings")
  ELSE With(ScanStringPathsLast(objectToParse, paths, i + 1, field), LAMBDA later :
         IF later # NotFound THEN later
         ELSE StringPathValue(paths[i], findNestedValueForPath(objectToParse, paths[i])))

RECURSIVE ScanStringPaths(_, _, _, _)
\* the for loop over a pathTo{Code,Message,Details,Domain} list
ScanStringPaths(objectToParse, paths, i, field) ==
  IF i > Len(paths) THEN NotFound
  ELSE IF Typeof(paths[i]) # "string" THEN Str("pathTo" \o field \o "ValuesAreNotStrings")
  ELSE With(StringPathValue(paths[i], findNestedValueForPath(objectToParse, paths[i])),
            LAMBDA r :
              IF r # NotFound THEN r
              ELSE ScanStringPaths(objectToParse, paths, i + 1, field))

\* the body of the loop over pathToNumberCode
NumberPathValue(path, found) ==
  IF ~IsNullish(found) /\ Typeof(found) = "number" /\ ~IsNaN(found)
    THEN [t |-> "found", path |-> path, before |-> found]
  ELSE NotFound

RECURSIVE ScanNumberPaths(_, _, _)
\* the for loop over pathToNumberCode
ScanNumberPaths(objectToParse, paths, i) ==
  IF i > Len(paths) THEN NotFound
  ELSE IF Typeof(paths[i]) # "string" THEN Str("pathToNumberCodeValuesAreNotStrings")
  ELSE With(NumberPathValue(paths[i], findNestedValueForPath(objectToParse, paths[i])),
            LAMBDA r :
              IF r # NotFound THEN r
              ELSE ScanNumberPaths(objectToParse, paths, i + 1))

\* one field of __processAllValuesFromPaths: the `in` test, the isArray test
\* and the loop
ProcessField(objectToParse, options, field) ==
  IF ~HasKey(options.o, "pathTo" \o field) THEN Str("pathTo" \o field \o "IsInvalid")
  ELSE IF ~IsArray(Get(options, "pathTo" \o field))
    THEN Str("pathTo" \o field \o "IsNotAnArray")
  ELSE IF field = "NumberCode"
    THEN ScanNumberPaths(objectToParse, Get(options, "pathTo" \o field).a, 1)
  ELSE ScanStringPaths(objectToParse, Get(options, "pathTo" \o field).a, 1, field)

Fields == <<"Code", "NumberCode", "Message", "Details", "Domain">>

RECURSIVE ProcessFields(_, _, _, _)
\* the five blocks of __processAllValuesFromPaths in the order of the code:
\* the first failure code ends the function, otherwise done holds what each
\* field found
ProcessFields(objectToParse, options, f, done) ==
  IF f > Len(Fields)
    THEN [t |-> "values", code |-> done[1], numberCode |-> done[2], message |-> done[3],
          details |-> done[4], domain |-> done[5]]
  ELSE With(ProcessField(objectToParse, options, Fields[f]), LAMBDA r :
         IF r.t = "string" THEN r
         ELSE ProcessFields(objectToParse, options, f + 1, Append(done, r)))

__processAllValuesFromPaths(objectToParse, options) ==
  ProcessFields(objectToParse, options, 1, <<>>)

\* { path, beforeTransform, value }
PathValueAndTransform(path, beforeTransform, v) ==
  [t |-> "pvt", path |-> path, beforeTransform |-> beforeTransform, value |-> v]

\* the inner try/catch of buildSummaryFromObject: objectToParse after
\* JSON.parse(maybeObject), still undefined when the text is no JSON or
\* decodes to no object
ParsedObject(json) ==
  IF ~IsThrown(json) /\ ~IsNullish(json) /\ Typeof(json) = "object" THEN json ELSE Undefined

\* if (objectToParse === maybeObject) { objectToParse = { code: 'unknown',
\* message: maybeObject } }: an object or undefined is compared with a string
SyntheticObject(parsed, maybeObject) ==
  IF parsed = maybeObject
    THEN Obj(<<P("code", Str("unknown")), P("message", maybeObject)>>)
    ELSE parsed

\* if (objectToParse === undefined || objectToParse === null) {
\* objectToParse = maybeObject }
OrMaybeObject(objectToParse, maybeObject) ==
  IF IsNullish(objectToParse) THEN maybeObject ELSE objectToParse

\* the candidate object buildSummaryFromObject extracts from
ObjectToParse(maybeObject) ==
  IF Typeof(maybeObject) = "string"
    THEN OrMaybeObject(SyntheticObject(ParsedObject(JSONParse(maybeObject.s)), maybeObject),
                       maybeObject)
    ELSE maybeObject

\* values.f && typeof values.f !== 'string'
IsNotString(v) == Truthy(v) /\ Typeof(v) # "string"

\* the checks of values.numberCode
NumberCodeResultError(numberCode) ==
  IF IsNullish(numberCode) THEN Undefined
  ELSE IF Typeof(numberCode) # "number" THEN Str("transformNumberCodeResultIsNotNumber")
  ELSE IF IsNaN(numberCode) THEN Str("transformNumberCodeResultIsNaN")
  ELSE Undefined

\* the checks of the four string fields, code first and the others after
\* numberCode
TransformFieldsError(code, numberCodeError, message, details, domain) ==
  IF IsNotString(code) THEN Str("transformCodeResultIsNotString")
  ELSE IF numberCodeError # Undefined THEN numberCodeError
  ELSE IF IsNotString(message) THEN Str("transformMessageResultIsNotString")
  ELSE IF IsNotString(details) THEN Str("transformDetailsResultIsNotString")
  ELSE IF IsNotString(domain) THEN Str("transformDomainResultIsNotString")
  ELSE Undefined

\* the validation of the transform's result
TransformResultError(values) ==
  IF IsNullish(values) \/ Typeof(values) # "object"
    THEN Str("transformResultIsNotAValidObject")
  ELSE TransformFieldsError(Get(values, "code"),
                            NumberCodeResultError(Get(values, "numberCode")),
                            Get(values, "message"), Get(values, "details"),
                            Get(values, "domain"))

\* StringField looking at the transformed value only
StringFieldOfValue(f, v) ==
  IF Truthy(v) THEN PathValueAndTransform(f.path, f.before, v) ELSE Undefined

\* path || beforeTransform || value ? { path, beforeTransform, value } :
\* undefined
StringField(f, v) ==
  IF Truthy(f.path) \/ Truthy(f.before) \/ Truthy(v)
    THEN PathValueAndTransform(f.path, f.before, v) ELSE Undefined

\* the numberCode member of a summary's value
NumberField(f, v) ==
  IF Truthy(f.path) \/ ~IsNullish(f.before) \/ ~IsNullish(v)
    THEN PathValueAndTransform(f.path, f.before, v) ELSE Undefined

\* the summary object buildSummaryFromObject returns
MakeSummary(objectToParse, errorsPath, didDetectErrorsArray, r, values) ==
  [t |-> "summary",
   didDetectErrorsArray |-> IF didDetectErrorsArray THEN Bool(TRUE) ELSE Undefined,
   input |-> objectToParse,
   path |-> errorsPath,
   value |-> [code |-> StringField(r.code, Get(values, "code")),
              numberCode |-> NumberField(r.numberCode, Get(values, "numberCode")),
              message |-> StringField(r.message, Get(values, "message")),
              details |-> StringField(r.details, Get(values, "details")),
              domain |-> StringField(r.domain, Get(values, "domain"))]]

\* const beforeTransform: ErrorObjectTransformState = { ... }
BeforeTransform(valuesResult) ==
  Obj(<<P("code", valuesResult.code.before),
        P("numberCode", valuesResult.numberCode.before),
        P("message", valuesResult.message.before),
        P("details", valuesResult.details.before),
        P("domain", valuesResult.domain.before)>>)

\* options.transform ? options.transform(beforeTransform, objectToParse) :
\* beforeTransform
TransformedValues(transform, beforeTransform, objectToParse) ==
  IF Truthy(transform) THEN ApplyTransform(transform, beforeTransform, objectToParse)
  ELSE beforeTransform

\* buildSummaryFromObject from the call of __processAllValuesFromPaths on
ParsedSummary(objectToParse, errorsPath, didDetectErrorsArray, options) ==
  With(__processAllValuesFromPaths(objectToParse, options), LAMBDA valuesResult :
    IF valuesResult.t = "string" THEN valuesResult
    ELSE IF HasKey(options.o, "transform") /\ Typeof(Get(options, "transform")) # "function"
      THEN Str("transformIsNotAFunction")
    ELSE With(TransformedValues(Get(options, "transform"), BeforeTransform(valuesResult),
                                objectToParse), LAMBDA values :
      IF IsThrown(values) THEN Thrown
      ELSE With(TransformResultError(values), LAMBDA failure :
        IF failure # Undefined THEN failure
        ELSE MakeSummary(objectToParse, errorsPath, didDetectErrorsArray, valuesResult,
                         values))))

\* the try block of buildSummaryFromObject
BuildSummaryTry(maybeObject, errorsPath, didDetectErrorsArray, withOpts) ==
  IF IsNullish(maybeObject) THEN Str("buildSummaryIsNullish")
  ELSE With(ObjectToParse(maybeObject), LAMBDA objectToParse :
    IF Typeof(objectToParse) # "object" THEN Str("buildSummaryIsNotAnObject")
    ELSE ParsedSummary(objectToParse, errorsPath, didDetectErrorsArray,
                       IF IsNullish(withOpts) THEN DEFAULT_BUILD_OPTIONS ELSE withOpts))

\* CatchBuildSummary returning its code only while the logs are shown
CatchBuildSummaryWhenShown(r) ==
  IF IsThrown(r)
    THEN (IF SHOW_ERROR_LOGS THEN Str("generalBuildSummaryFromObjectError")
          ELSE Str("buildSummaryIsNullish"))
    ELSE r

\* the catch block of buildSummaryFromObject maps any exception to a code
CatchBuildSummary(r) ==
  IF IsThrown(r) THEN Str("generalBuildSummaryFromObjectError") ELSE r

buildSummaryFromObject(maybeObject, errorsPath, didDetectErrorsArray, withOpts) ==
  CatchBuildSummary(BuildSummaryTry(maybeObject, errorsPath, didDetectErrorsArray, withOpts))

-----------------------------------------------------------------------------
(* Error-collection detector *)

NoErrorsArray == [t |-> "detected", errors |-> <<>>, errorsPath |-> Undefined, didDetectErrorsArray |-> FALSE]

\* the body of the loop over options.pathToErrors: a value that is truthy
\* and an array ends the search
DetectedAt(path, found) ==
  IF Truthy(found) /\ IsArray(found)
    THEN [t |-> "detected", errors |-> found.a, errorsPath |-> path,
          didDetectErrorsArray |-> TRUE]
    ELSE NoErrorsArray

RECURSIVE FindErrorsArray(_, _, _)
\* the for loop over options.pathToErrors
FindErrorsArray(input, paths, i) ==
  IF i > Len(paths) THEN NoErrorsArray
  ELSE IF Typeof(paths[i]) # "string" THEN Str("pathToErrorsValuesAreNotStrings")
  ELSE With(DetectedAt(paths[i], findNestedValueForPath(input, paths[i])), LAMBDA d :
         IF d # NoErrorsArray THEN d ELSE FindErrorsArray(input, paths, i + 1))

RECURSIVE BuildEach(_, _, _, _, _)
\* the for loop over errors, pushing one summary per candidate
BuildEach(errors, i, errorsPath, didDetectErrorsArray, options) ==
  IF i > Len(errors) THEN <<>>
  ELSE <<buildSummaryFromObject(errors[i], errorsPath, didDetectErrorsArray, options)>>
       \o BuildEach(errors, i + 1, errorsPath, didDetectErrorsArray, options)

\* the candidates: the detected array, or the input itself when the array
\* is empty or none was detected
Candidates(input, detected) == IF Len(detected.errors) = 0 THEN <<input>> ELSE detected.errors

\* buildSummariesFromObject from the `in` test of pathToErrors on
SummariesWith(input, options) ==
  IF HasKey(options.o, "pathToErrors") /\ ~IsArray(Get(options, "pathToErrors"))
    THEN Arr(<<Str("pathToErrorsIsNotAnArray")>>)
  ELSE With(IF HasKey(options.o, "pathToErrors")
              THEN FindErrorsArray(input, Get(options, "pathToErrors").a, 1)
              ELSE NoErrorsArray, LAMBDA detected :
    IF detected.t = "string" THEN Arr(<<detected>>)
    ELSE Arr(BuildEach(Candidates(input, detected), 1, detected.errorsPath,
                       detected.didDetectErrorsArray, options)))

\* the try block of buildSummariesFromObject
BuildSummariesTry(input, withOpts) ==
  IF IsNullish(input) THEN Arr(<<Str("isNullish")>>)
  ELSE IF Typeof(input) # "object" THEN Arr(<<Str("isNotAnObject")>>)
  ELSE SummariesWith(input, IF IsNullish(withOpts) THEN DEFAULT_BUILD_OPTIONS ELSE withOpts)

\* the catch block of buildSummariesFromObject maps any exception to a code
CatchBuildSummaries(r) ==
  IF IsThrown(r) THEN Arr(<<Str("generalBuildSummariesFromObjectError")>>) ELSE r

buildSummariesFromObject(input, withOpts) == CatchBuildSummaries(BuildSummariesTry(input, withOpts))

-----------------------------------------------------------------------------
(* Result aggregator *)

ProcessingError(errorCode, summary) == [errorCode |-> errorCode, summary |-> summary]

\* summary.value.code?.value
FieldValue(summary, field) ==
  IF IsNullish(summary.value[field]) THEN Undefined ELSE summary.value[field].value

\* the test of the filter() and map() callbacks of processErrorObjectResult
\* AreStrings rejecting the empty string
AreNonEmptyStrings(code, message) ==
  /\ Truthy(code) /\ Typeof(code) = "string"
  /\ Truthy(message) /\ Typeof(message) = "string"

\* code !== undefined && code !== null && typeof code === 'string', and the
\* same of message
AreStrings(code, message) ==
  /\ ~IsNullish(code) /\ Typeof(code) = "string"
  /\ ~IsNullish(message) /\ Typeof(message) = "string"

\* IsValidSummary looking at the code only
IsValidSummaryCodeOnly(summary) ==
  /\ Typeof(summary) # "string"
  /\ Typeof(summary) = "object"
  /\ AreStrings(FieldValue(summary, "code"), FieldValue(summary, "code"))

IsValidSummary(summary) ==
  /\ Typeof(summary) # "string"
  /\ Typeof(summary) = "object"
  /\ AreStrings(FieldValue(summary, "code"), FieldValue(summary, "message"))

RECURSIVE CollectProcessingErrorsBare(_, _)
\* CollectProcessingErrors leaving the summary out of unknownCodeOrMessage
CollectProcessingErrorsBare(summaries, i) ==
  IF i > Len(summaries) THEN <<>>
  ELSE (IF Typeof(summaries[i]) = "string"
          THEN <<ProcessingError(summaries[i], Undefined)>>
        ELSE IF Typeof(summaries[i]) # "object"
          THEN <<ProcessingError(Str("invalidSummary"), Undefined)>>
        ELSE IF IsValidSummary(summaries[i]) THEN <<>>
        ELSE <<ProcessingError(Str("unknownCodeOrMessage"), Undefined)>>)
       \o CollectProcessingErrorsBare(summaries, i + 1)

RECURSIVE CollectProcessingErrors(_, _)
\* what the filter() callback pushes to processingErrors, in order
CollectProcessingErrors(summaries, i) ==
  IF i > Len(summaries) THEN <<>>
  ELSE (IF Typeof(summaries[i]) = "string"
          THEN <<ProcessingError(summaries[i], Undefined)>>
        ELSE IF Typeof(summaries[i]) # "object"
          THEN <<ProcessingError(Str("invalidSummary"), Undefined)>>
        ELSE IF IsValidSummary(summaries[i]) THEN <<>>
        ELSE <<ProcessingError(Str("unknownCodeOrMessage"), summaries[i])>>)
       \o CollectProcessingErrors(summaries, i + 1)

\* new ErrorObject(props), as the props it is given
ErrorObject(code, message, numberCode, details, domain, summary, processingErrors) ==
  [t |-> "ErrorObject", tag |-> Undefined, code |-> code, message |-> message,
   numberCode |-> numberCode, details |-> details, domain |-> domain,
   summary |-> summary, processingErrors |-> processingErrors,
   nextErrors |-> Undefined, raw |-> Undefined]

\* ErrorObject.fallback()
Fallback ==
  [t |-> "ErrorObject", tag |-> Str("fallback"), code |-> Str("unknown"),
   message |-> Str("Something went wrong"), numberCode |-> Undefined, details |-> Undefined,
   domain |-> Undefined, summary |-> Undefined, processingErrors |-> Undefined,
   nextErrors |-> Undefined, raw |-> Undefined]

setRaw(e, raw) == [e EXCEPT !.raw = raw]

setNextErrors(e, nextErrors) == [e EXCEPT !.nextErrors = nextErrors]

setProcessingErrors(e, processingErrors) == [e EXCEPT !.processingErrors = processingErrors]

RECURSIVE ValidErrors(_, _, _)
\* the filter().map().filter() chain: one ErrorObject per valid summary
ValidErrors(summaries, i, processingErrors) ==
  IF i > Len(summaries) THEN <<>>
  ELSE (IF IsValidSummary(summaries[i])
          THEN <<ErrorObject(FieldValue(summaries[i], "code"),
                             FieldValue(summaries[i], "message"),
                             FieldValue(summaries[i], "numberCode"),
                             FieldValue(summaries[i], "details"),
                             FieldValue(summaries[i], "domain"),
                             summaries[i], processingErrors)>>
          ELSE <<>>)
       \o ValidErrors(summaries, i + 1, processingErrors)

Result(error, force) == [t |-> "result", error |-> error, force |-> force]

\* const [firstError, ...nextErrors] = validErrors; firstError
\* .setNextErrors(nextErrors?.length > 0 ? nextErrors : undefined).setRaw(raw)
FirstError(validErrors, raw) ==
  setRaw(setNextErrors(Head(validErrors),
                       IF Len(Tail(validErrors)) > 0 THEN Arr(Tail(validErrors))
                       ELSE Undefined),
         raw)

\* the return after the try block of processErrorObjectResult
NotFoundResult(processingErrors, fallbackError) ==
  Result(Undefined,
         IF Len(processingErrors.a) > 0
           THEN setProcessingErrors(fallbackError, processingErrors)
           ELSE fallbackError)

\* ProcessValidErrors with the fallback returned bare, its processing errors
\* dropped
ProcessValidErrorsBareFallback(validErrors, processingErrors, raw, fallbackError) ==
  IF Len(validErrors) > 0
    THEN With(FirstError(validErrors, raw), LAMBDA error : Result(error, error))
    ELSE Result(Undefined, fallbackError)

\* processErrorObjectResult once processingErrors and validErrors are known
ProcessValidErrors(validErrors, processingErrors, raw, fallbackError) ==
  IF Len(validErrors) > 0
    THEN With(FirstError(validErrors, raw), LAMBDA error : Result(error, error))
    ELSE NotFoundResult(processingErrors, fallbackError)

\* processErrorObjectResult with processingErrors kept from the call before
\* instead of starting empty
ProcessKeepingErrors(summaries, raw, fallbackError) ==
  With(Arr((IF result = Undefined \/ IsThrown(result)
               \/ result.force.processingErrors = Undefined
              THEN <<>> ELSE result.force.processingErrors.a)
           \o CollectProcessingErrors(summaries, 1)), LAMBDA processingErrors :
    ProcessValidErrors(ValidErrors(summaries, 1, processingErrors), processingErrors, raw,
                       fallbackError))

processErrorObjectResult(summaries, raw, fallbackError) ==
  With(Arr(CollectProcessingErrors(summaries, 1)), LAMBDA processingErrors :
    ProcessValidErrors(ValidErrors(summaries, 1, processingErrors), processingErrors, raw,
                       fallbackError))

-----------------------------------------------------------------------------
(* Public entry point *)

\* { ...DEFAULT_BUILD_OPTIONS, ...(withOptions ?? {}) }
MergeOptions(withOpts) ==
  Obj(SpreadInto(DEFAULT_BUILD_OPTIONS.o,
                 OwnPairs(IF IsNullish(withOpts) THEN Obj(<<>>) ELSE withOpts), 1))

\* from() when checksFailed !== undefined
ChecksFailedResult(checks, fallbackError) ==
  Result(Undefined,
         setProcessingErrors(fallbackError, Arr(<<ProcessingError(checks, Undefined)>>)))

\* the summaries from() builds
Summaries(v, options) ==
  IF HasKey(options.o, "pathToErrors")
    THEN buildSummariesFromObject(v, options)
    ELSE Arr(<<buildSummaryFromObject(v, Undefined, FALSE, options)>>)

\* from() with the merged options and the fallback
FromWith(v, options, fallbackError) ==
  With(checkInputForInitialObject(v, options), LAMBDA checks :
    IF IsThrown(checks)
      THEN [checksFailed |-> Undefined, summaries |-> Undefined, ret |-> Thrown]
    ELSE IF checks # Undefined
      THEN [checksFailed |-> checks, summaries |-> Undefined,
            ret |-> ChecksFailedResult(checks, fallbackError)]
    ELSE With(Summaries(v, options), LAMBDA sums :
      [checksFailed |-> Undefined, summaries |-> sums,
       ret |-> processErrorObjectResult(sums.a, v, fallbackError)]))

\* one run of from(): the locals checksFailed and summaries (Undefined when
\* never assigned) and what the call returns (Thrown when an exception
\* leaves it)
FromRun(v, withOpts) == FromWith(v, MergeOptions(withOpts), setRaw(Fallback, v))

from(v, withOpts) == FromRun(v, withOpts).ret

\* what one run of from() prints: ErrorObject.SHOW_ERROR_LOGS &&
\* console.log(...) in each catch block that is entered, in the order the
\* blocks are entered. A catch of a summary builder is entered exactly when
\* the builder returns its general error code; nothing throws in the try
\* block of processErrorObjectResult.
LogLines(showErrorLogs, v, options, summaries) ==
  IF ~showErrorLogs THEN <<>>
  ELSE (IF IsThrown(CheckInputTry(v, options))
          THEN <<"Error during checkInputForInitialObject():">> ELSE <<>>)
       \o (IF summaries = Undefined THEN <<>>
           ELSE With(SelectSeq(summaries.a,
                               LAMBDA s : s \in {Str("generalBuildSummaryFromObjectError"),
                                                 Str("generalBuildSummariesFromObjectError")}),
                     LAMBDA caught :
                       [i \in 1..Len(caught) |->
                          IF caught[i] = Str("generalBuildSummaryFromObjectError")
                            THEN "Error during buildSummaryFromObject():"
                            ELSE "Error during buildSummariesFromObject():"]))

\* InputsAfter with the options merged into DEFAULT_BUILD_OPTIONS itself
\* (Object.assign) instead of into a fresh object
InputsAfterAssign(v, withOpts) ==
  [value |-> v, withOptions |-> withOpts, DEFAULT_BUILD_OPTIONS |-> MergeOptions(withOpts)]

\* the payload, the options argument and DEFAULT_BUILD_OPTIONS after a run
\* of from(): the spread of line 209 copies into a fresh object, errors and
\* summaries are fresh arrays (551, 572, 575), the setters are called on the
\* fresh fallback and records, and no statement assigns to a property of
\* value, of withOptions or of DEFAULT_BUILD_OPTIONS, nor calls a mutating
\* method on their arrays
InputsAfter(v, withOpts) ==
  [value |-> v, withOptions |-> withOpts, DEFAULT_BUILD_OPTIONS |-> DEFAULT_BUILD_OPTIONS]

-----------------------------------------------------------------------------
(* The ErrorObjectFromPayload class *)

\* 'k' in props && props.k !== undefined && props.k !== null &&
\* typeof props.k === 'string', for a props the in operator takes
HasStringProperty(props, k) ==
  /\ props.t = "object"
  /\ HasKey(props.o, k)
  /\ ~IsNullish(Get(props, k))
  /\ Typeof(Get(props, k)) = "string"

\* super(props): the record with the props it is given
SuperOf(props) ==
  [t |-> "ErrorObject", tag |-> Get(props, "tag"), code |-> Get(props, "code"),
   message |-> Get(props, "message"), numberCode |-> Get(props, "numberCode"),
   details |-> Get(props, "details"), domain |-> Get(props, "domain"),
   summary |-> Undefined, processingErrors |-> Undefined, nextErrors |-> Undefined,
   raw |-> Get(props, "raw")]

\* the else branch of the constructor. The private static
\* checkInputForInitialObject has the statements of the exported function
\* with no try/catch around them; its exception is caught by the
\* constructor (INT-1). The private static processErrorObjectResult builds
\* the summaries as from() does, collects the processing errors and maps
\* each valid summary to the props of a record; the first becomes this
\* record, the others its nextErrors, and with none the record is the
\* generic one with the fallback tag.
ConstructWith(props, options) ==
  With(CheckInputTry(props, options), LAMBDA checks :
    IF IsThrown(checks)
      THEN SuperOf(Obj(<<P("code", Str("INT-1")),
                         P("message", Str("Error during checkInputForInitialObject(). Details: ")),
                         P("tag", Str("fallback-error-object")),
                         P("raw", Obj(<<P("error", Thrown)>>))>>))
    ELSE IF checks # Undefined
      THEN SuperOf(Obj(<<P("code", Fallback.code), P("message", Fallback.message),
                         P("tag", Str("fallback-error-object")),
                         P("raw", Obj(<<P("processingErrors",
                                        Arr(<<ProcessingError(checks, Undefined)>>))>>))>>))
    ELSE With(Summaries(props, options), LAMBDA summaries :
      With(Arr(CollectProcessingErrors(summaries.a, 1)), LAMBDA processingErrors :
        With(SelectSeq(summaries.a, IsValidSummary), LAMBDA valid :
          IF Len(valid) > 0
            THEN setNextErrors(
                   SuperOf(Obj(<<P("code", FieldValue(valid[1], "code")),
                                 P("message", FieldValue(valid[1], "message")),
                                 P("numberCode", FieldValue(valid[1], "numberCode")),
                                 P("details", FieldValue(valid[1], "details")),
                                 P("domain", FieldValue(valid[1], "domain")),
                                 P("raw", Obj(<<P("processingErrors", processingErrors),
                                                P("summary", summaries),
                                                P("value", props)>>))>>)),
                   IF Len(valid) > 1
                     THEN Arr([i \in 1..(Len(valid) - 1) |->
                            SuperOf(Obj(<<P("code", FieldValue(valid[i + 1], "code")),
                                          P("message", FieldValue(valid[i + 1], "message")),
                                          P("numberCode", FieldValue(valid[i + 1], "numberCode")),
                                          P("details", FieldValue(valid[i + 1], "details")),
                                          P("domain", FieldValue(valid[i + 1], "domain")),
                                          P("raw", Obj(<<P("value", props),
                                                         P("processingErrors", processingErrors),
                                                         P("summary", valid[i + 1])>>))>>))])
                     ELSE Undefined)
            ELSE SuperOf(Obj(<<P("code", Fallback.code), P("message", Fallback.message),
                               P("tag", Str("fallback-error-object")),
                               P("raw", Obj(<<P("processingErrors",
                                              IF Len(processingErrors.a) > 0
                                                THEN processingErrors ELSE Undefined),
                                              P("summary", summaries)>>))>>))))))

\* new ErrorObjectFromPayload(props, withOptions): the record constructed,
\* Thrown when the constructor throws; 'code' in props is a TypeError for
\* undefined, null and primitives
ErrorObjectFromPayload(props, withOpts) ==
  IF props.t \notin {"object", "array"} THEN Thrown
  ELSE IF HasStringProperty(props, "code") /\ HasStringProperty(props, "message")
    THEN SuperOf(props)
  ELSE ConstructWith(props, MergeOptions(withOpts))

\* isFallback(): this.tag === ErrorObjectFromPayload.DEFAULT_FALLBACK_TAG
isFallback(e) == e.tag = Str("fallback-error-object")

-----------------------------------------------------------------------------
(* Inputs *)

\* longest error array of the generated payloads
MaxErrors == 3

\* a property left out of an object literal
Absent == [t |-> "absent"]

Opt(k, v) == IF v = Absent THEN <<>> ELSE <<P(k, v)>>

Seqs(S, n) == UNION {[1..k -> S] : k \in 0..n}

Good1 == Obj(<<P("code", Str("E1")), P("message", Str("m1"))>>)

Good2 == Obj(<<P("code", Str("E2")), P("message", Str("m2"))>>)

NoCode == Obj(<<P("message", Str("m3"))>>)

Elements == {Good1, Good2, NoCode}

ErrorArrays == {Arr(a) : a \in Seqs(Elements, MaxErrors)}

\* payloads with an error collection (playground examples 7 and 11)
CollectionPayloads ==
  UNION {{ Obj(<<P("errors", a)>>),
           Obj(<<P("code", Str("R")), P("message", Str("rm")), P("errors", a)>>),
           Obj(<<P("errors", Arr(<<>>)), P("errs", a)>>),
           Obj(<<P("errs", a)>>),
           Obj(<<P("error", Obj(<<P("code", Str("R")), P("errors", a)>>))>>) }
         : a \in ErrorArrays}

FieldValues ==
  { Absent, Null, Str("E1"), Str(""), Num(403), Bool(TRUE),
    Obj(<<P("a", Num(1))>>), Arr(<<Str("x"), Num(2)>>) }

\* single candidates: every kind of value under code and message
FlatPayloads ==
  {Obj(Opt("code", c) \o Opt("message", m)) : c \in FieldValues, m \in FieldValues}

NumberCodePayloads ==
  { Obj(Opt("code", c) \o <<P("numberCode", n), P("message", Str("m1"))>>)
    : c \in {Absent, Str("E1")}, n \in {Num(7), Num(0), NaN, Infinity, Str("7"), Null} }

DetailsPayloads ==
  { Obj(<<P("code", Str("E1")), P("message", Str("m1")), P("details", d), P("domain", dd)>>)
    : d \in {Str("d"), Num(1), Obj(<<P("email", Arr(<<Str("required")>>))>>)},
      dd \in {Str("auth"), Bool(FALSE), Arr(<<>>)} }

\* the same field under several of the default paths
AlternativePayloads ==
  { Obj(Opt("code", a) \o Opt("err_code", b)
        \o <<P("error", Obj(Opt("code", c) \o <<P("message", Str("em"))>>))>>
        \o Opt("err_message", m))
    : a \in {Absent, Str("A"), Num(1), Null},
      b \in {Absent, Str("B"), Bool(TRUE)},
      c \in {Absent, Str("C"), Obj(<<>>)},
      m \in {Absent, Str("M")} }

OtherPayloads ==
  { Undefined, Null, Str("oops"), Str("{\"code\":\"E9\",\"message\":\"m9\"}"), Str(""),
    Num(5), Num(0), Bool(TRUE), Arr(<<>>), Arr(<<Good1>>), Obj(<<>>),
    Obj(<<P("errors", Arr(<<Str("s1"), Null, Good1, Num(3)>>))>>),
    Obj(<<P("errors", Arr(<<Str("s1"), Null, NoCode>>))>>),
    Obj(<<P("errors", Arr(<<Str("{\"code\":\"E9\",\"message\":\"m9\"}"), Good2>>))>>),
    Obj(<<P("errors", Str("none")), P("errs", Arr(<<Good2>>))>>),
    Obj(<<P("error", Str("Invalid input data")), P("code", Num(400))>>),
    Obj(<<P("code", Str("R")), P("message", Str("rm")), P("errors", Arr(<<>>)),
          P("errs", Arr(<<Good2>>))>>) }

\* payloads for the pre-flight rules (playground example 5)
RulePayloads ==
  { Obj(Opt("status", st) \o <<P("code", Str("E1")), P("message", Str("m1"))>> \o Opt("list", l))
    : st \in {Absent, Str("error"), Num(0)}, l \in {Absent, Arr(<<>>), Str("l")} }

\* options arguments that configure nothing
OddOptions == {Obj(<<>>), Null, Num(1), Str("ab"), Arr(<<Str("x")>>), Bool(TRUE)}

\* payloads whose collection is not under the first default path
NestedCollectionPayloads ==
  UNION {{ Obj(<<P("errors", Arr(<<>>)), P("errs", a)>>),
           Obj(<<P("error", Obj(<<P("code", Str("R")), P("errors", a)>>))>>) }
         : a \in ErrorArrays}

PathToErrorsOptions ==
  { Obj(<<P("pathToErrors", x)>>)
    : x \in {Arr(<<Str("errs"), Str("errors")>>), Arr(<<Str("error.errors")>>), Arr(<<>>)} }

MalformedPathToErrorsOptions ==
  { Obj(<<P("pathToErrors", x)>>)
    : x \in {Str("errors"), Arr(<<Num(0), Str("errors")>>), Arr(<<Str("errs"), Null>>), Undefined} }

PathOptions ==
  { Obj(<<P("pathToCode", Arr(<<Str("err_code"), Str("code")>>))>>),
    Obj(<<P("pathToCode", Arr(<<Str("error.code"), Str("code"), Str("err_code")>>)),
          P("pathToMessage", Arr(<<Str("err_message"), Str("error.message")>>))>>),
    Obj(<<P("pathToCode", Str("code"))>>),
    Obj(<<P("pathToCode", Arr(<<Str("code"), Num(1)>>))>>),
    Obj(<<P("pathToMessage", Undefined)>>),
    Obj(<<P("pathToNumberCode", Arr(<<Str("code"), Str("numberCode")>>)),
          P("pathToMessage", Arr(<<Str("error"), Str("message")>>))>>),
    Obj(<<P("pathToDetails", Arr(<<Null>>)), P("pathToDomain", Arr(<<Str("code")>>))>>),
    Obj(<<P("pathToDetails", Arr(<<Str("message"), Str("details")>>)),
          P("pathToDomain", Arr(<<Str("error"), Str("domain")>>))>>) }

\* what a transform may return: any mix of kinds per field
TransformStates ==
  { Obj(Opt("code", c) \o Opt("numberCode", n) \o Opt("message", m) \o Opt("details", d))
    : c \in {Absent, Str("T"), Str(""), Num(0), Num(5), Bool(FALSE), Null},
      n \in {Absent, Num(3), NaN, Infinity, Str("3")},
      m \in {Str("tm")},
      d \in {Absent, Str("d"), Num(0), Arr(<<>>)} }

TransformOptions ==
  {Obj(<<P("transform", Fn("returns", st))>>) : st \in TransformStates}
  \cup
  { Obj(<<P("transform", x)>>)
    : x \in { Fn("throws", Undefined), Fn("returns", Undefined), Fn("returns", Null),
              Fn("returns", Str("T")), Fn("returns", Arr(<<>>)),
              Fn("returns", Obj(<<P("code", Str("T")), P("message", Str("tm")),
                                  P("domain", Num(0))>>)),
              Fn("returns", Obj(<<P("code", Str("T")), P("message", Str("tm")),
                                  P("domain", Obj(<<>>))>>)),
              Fn("returns", Obj(<<P("code", Str("T")), P("message", Num(0))>>)),
              Fn("returns", Obj(<<P("code", Str("T")), P("message", Bool(TRUE))>>)),
              Fn("returns", Obj(<<P("code", Str("T")), P("message", Str(""))>>)),
              Fn("returns", Obj(<<P("code", Str("T"))>>)),
              Fn("merge", Obj(<<P("code", Str("invalid-data"))>>)),
              Fn("merge", Obj(<<P("message", Str("Something went wrong."))>>)),
              Fn("merge", Obj(<<P("code", Str(""))>>)),
              Fn("merge", Obj(<<P("numberCode", Infinity)>>)),
              Str("nofn"), Undefined, Null } }

TransformPayloads ==
  { Good1, Obj(<<>>),
    Obj(<<P("code", Str("E1")), P("numberCode", Num(7)), P("message", Str("m1")),
          P("details", Str("d0"))>>) }

Rule(exists, more) == Obj(<<P("exists", Bool(exists))>> \o more)

ValuesRuleSets ==
  { Absent, Undefined, Null, Str("x"),
    Obj(<<P("status", Rule(TRUE, <<P("value", Str("error"))>>))>>),
    Obj(<<P("a", Null), P("status", Rule(TRUE, <<P("value", Str("error"))>>))>>),
    Obj(<<P("status", Rule(TRUE, <<P("value", Num(0))>>)),
          P("list", Rule(FALSE, <<P("value", Str("l"))>>))>>) }

TypesRuleSets ==
  { Absent, Null, Num(3),
    Obj(<<P("list", Rule(TRUE, <<P("type", Str("object")), P("valueIsArray", Bool(TRUE))>>))>>),
    Obj(<<P("status", Rule(TRUE, <<P("type", Str("string"))>>))>>),
    Obj(<<P("status", Rule(FALSE, <<P("type", Str("number"))>>)),
          P("list", Rule(FALSE, <<P("type", Str("string")), P("valueIsArray", Bool(TRUE))>>))>>) }

KeysRuleSets ==
  { Absent, Undefined, Fn("rules", Undefined),
    Obj(<<P("status", Rule(TRUE, <<>>))>>),
    Obj(<<P("list", Rule(FALSE, <<>>))>>),
    Obj(<<P("code", Undefined), P("status", Rule(TRUE, <<>>))>>) }

RuleOptions ==
  { Obj(Opt("checkInputObjectForValues", v) \o Opt("checkInputObjectForTypes", ty)
        \o Opt("checkInputObjectForKeys", k))
    : v \in ValuesRuleSets, ty \in TypesRuleSets, k \in KeysRuleSets }

\* most prefixes of a prefix list
MaxPrefixes == 2

\* most paths of a path list given to addPrefixPathVariants
MaxPaths == 2

\* longest array inside the values paths are resolved in
MaxItems == 2

AllPayloads ==
  CollectionPayloads \cup FlatPayloads \cup NumberCodePayloads \cup DetailsPayloads
  \cup AlternativePayloads \cup OtherPayloads \cup RulePayloads \cup TransformPayloads
  \cup { Obj(<<P("code", Str(c)), P("message", Str(m)), P("domain", Str(d))>>)
         : c \in {"", "E1"}, m \in {"Something went wrong", "m1"}, d \in {"auth", "d"} }

-----------------------------------------------------------------------------
(* The calls *)

Init ==
  /\ value = Undefined
  /\ withOptions = Undefined
  /\ checksFailed = Undefined
  /\ builtSummaries = Undefined
  /\ result = Undefined
  /\ previous = Undefined
  /\ helper = [fn |-> "none", args |-> <<>>, ret |-> Undefined]
  /\ SHOW_ERROR_LOGS = FALSE
  /\ logs = <<>>
  /\ after = Undefined
  /\ pc = "idle"

\* one call of from(v, o), from entry to return
Call(v, o) ==
  /\ pc = "idle"
  /\ \E run \in {FromRun(v, o)} :
        /\ value' = v
        /\ withOptions' = o
        /\ checksFailed' = run.checksFailed
        /\ builtSummaries' = run.summaries
        /\ result' = run.ret
        /\ logs' = <<[showErrorLogs |-> SHOW_ERROR_LOGS,
                      lines |-> LogLines(SHOW_ERROR_LOGS, v, MergeOptions(o), run.summaries)]>>
        /\ pc' = "returned"
  /\ after' = InputsAfter(v, o)
  /\ UNCHANGED <<previous, helper, SHOW_ERROR_LOGS>>

\* from() called once more with the payload and options of the call that
\* has just returned
CallAgain ==
  /\ pc = "returned"
  /\ previous = Undefined
  /\ \E run \in {FromRun(value, withOptions)} :
        /\ checksFailed' = run.checksFailed
        /\ builtSummaries' = run.summaries
        /\ result' = run.ret
        /\ logs' = Append(logs,
                          [showErrorLogs |-> SHOW_ERROR_LOGS,
                           lines |-> LogLines(SHOW_ERROR_LOGS, value,
                                              MergeOptions(withOptions), run.summaries)])
  /\ previous' = result
  /\ after' = InputsAfter(value, withOptions)
  /\ UNCHANGED <<value, withOptions, helper, SHOW_ERROR_LOGS, pc>>

\* ErrorObject.SHOW_ERROR_LOGS = !ErrorObject.SHOW_ERROR_LOGS, by the
\* application between two calls of from()
SetShowErrorLogs ==
  /\ pc = "returned"
  /\ previous = Undefined
  /\ SHOW_ERROR_LOGS' = ~SHOW_ERROR_LOGS
  /\ UNCHANGED <<value, withOptions, checksFailed, builtSummaries, result, previous, helper,
                 logs, after, pc>>

\* from(payload) on every payload
CallDefault == \E v \in AllPayloads : Call(v, Undefined)

\* from(payload, options) with options that are no options object
CallOddOptions == \E v \in OtherPayloads \cup TransformPayloads, o \in OddOptions : Call(v, o)

CallPathToErrors ==
  \/ \E v \in NestedCollectionPayloads, o \in PathToErrorsOptions : Call(v, o)
  \/ \E v \in OtherPayloads, o \in PathToErrorsOptions \cup MalformedPathToErrorsOptions :
       Call(v, o)

CallPaths ==
  \E v \in AlternativePayloads \cup NumberCodePayloads \cup DetailsPayloads \cup OtherPayloads,
     o \in PathOptions : Call(v, o)

CallTransform == \E v \in TransformPayloads, o \in TransformOptions : Call(v, o)

CallRules ==
  \E v \in RulePayloads \cup {Undefined, Str("oops"), Obj(<<>>)}, o \in RuleOptions : Call(v, o)

\* one call of an exported helper, from entry to return
HelperCall(fn, args, ret) ==
  /\ pc = "idle"
  /\ helper' = [fn |-> fn, args |-> args, ret |-> ret]
  /\ pc' = "helper"
  /\ UNCHANGED <<value, withOptions, checksFailed, builtSummaries, result, previous,
                 SHOW_ERROR_LOGS, logs, after>>

\* addPrefixPathVariants(prefix, array) with one prefix or a list of
\* prefixes (playground example 3 and DEFAULT_BUILD_OPTIONS give 'error')
CallAddPrefixPathVariants ==
  \E prefix \in {Str("error"), Str("data")}
                \cup {Arr(s) : s \in Seqs({Str("error"), Str("data"), Str("e")}, MaxPrefixes)},
     array \in {Arr(s) : s \in Seqs({Str("code"), Str("message"), Str("context.reason")},
                                    MaxPaths)} :
    HelperCall("addPrefixPathVariants", <<prefix, array>>, addPrefixPathVariants(prefix, array))

\* findNestedValueForPath(value, path) with indexes in dot and in bracket
\* notation, keys that read as numbers, and a path that is no string
CallFindNestedValueForPath ==
  \E v \in { Obj(<<P("a", Arr(s)), P("a0", Obj(<<P("b", Str("w"))>>))>>)
              : s \in Seqs({Str("x"), Num(1), Obj(<<P("b", Arr(<<Str("y"), Str("z")>>))>>)},
                           MaxItems) }
            \cup { Undefined, Null, Num(0), Str("s"), Arr(<<Obj(<<P("b", Str("q"))>>)>>),
                   Obj(<<P("7", Str("t")), P("007", Str("p")), P("1e2", Str("q")),
                         P("0x10", Str("r")), P(" ", Str("s")), P("k", Null)>>),
                   Obj(<<P("a", Obj(<<P("-1", Str("m")), P("b", Num(0))>>))>>) },
     path \in { Str(p) : p \in { "a", "a.0", "a[0]", "a.1", "a[1]", "a.0.b", "a[0].b",
                                "a.[0].b", "a.0.b.1", "a[0].b[1]", "a.length", "a0.b",
                                "[0].b", "0.b", "", "7", "007", "1e2", "0x10", " ", "k",
                                "a.-1", "a.b.c", "a.b" } }
                \cup {Undefined, Num(5)} :
    HelperCall("findNestedValueForPath", <<v, path>>, findNestedValueForPath(v, path))

\* new ErrorObjectFromPayload(props, options)
CallConstructor ==
  \E props \in OtherPayloads \cup FlatPayloads \cup RulePayloads
               \cup { Obj(<<P("errors", Arr(<<Good1, NoCode, Good2>>))>>),
                      Obj(<<P("errs", Arr(<<NoCode>>))>>) },
     o \in { Undefined, Obj(<<>>),
             Obj(<<P("checkInputObjectForKeys", Obj(<<P("status", Rule(TRUE, <<>>))>>))>>),
             Obj(<<P("checkInputObjectForValues",
                     Obj(<<P("status", Rule(TRUE, <<P("value", Str("error"))>>))>>))>>),
             Obj(<<P("checkInputObjectForTypes",
                     Obj(<<P("list", Rule(TRUE, <<P("type", Str("object")),
                                                  P("valueIsArray", Bool(TRUE))>>))>>))>>),
             Obj(<<P("checkInputObjectForValues", Obj(<<P("a", Null)>>))>>),
             Obj(<<P("pathToErrors", Arr(<<>>))>>) } :
    HelperCall("ErrorObjectFromPayload", <<props, o>>, ErrorObjectFromPayload(props, o))

\* the caller is done with the result; the next call starts afresh, the
\* toggle off again
Done ==
  /\ pc \in {"returned", "helper"}
  /\ value' = Undefined
  /\ withOptions' = Undefined
  /\ checksFailed' = Undefined
  /\ builtSummaries' = Undefined
  /\ result' = Undefined
  /\ previous' = Undefined
  /\ helper' = [fn |-> "none", args |-> <<>>, ret |-> Undefined]
  /\ SHOW_ERROR_LOGS' = FALSE
  /\ logs' = <<>>
  /\ after' = Undefined
  /\ pc' = "idle"

Next ==
  \/ CallDefault
  \/ CallOddOptions
  \/ CallPathToErrors
  \/ CallPaths
  \/ CallTransform
  \/ CallRules
  \/ CallAgain
  \/ SetShowErrorLogs
  \/ CallAddPrefixPathVariants
  \/ CallFindNestedValueForPath
  \/ CallConstructor
  \/ Done

Spec == Init /\ [][Next]_vars

\* the calls that configure pre-flight rules
SpecRules == Init /\ [][CallRules \/ Done]_vars

\* the calls that exercise the field paths
SpecPaths == Init /\ [][CallDefault \/ CallPaths \/ Done]_vars

\* the calls that exercise the error-collection paths
SpecCollections == Init /\ [][CallDefault \/ CallPathToErrors \/ Done]_vars

\* the calls that configure a transform
SpecTransform == Init /\ [][CallTransform \/ Done]_vars

\* calls repeated with the same payload and options
SpecRepeat ==
  Init /\ [][CallDefault \/ CallPathToErrors \/ CallTransform \/ CallAgain \/ Done]_vars

\* calls repeated with ErrorObject.SHOW_ERROR_LOGS flipped or not in between,
\* under options that make the validator or a summary builder catch
SpecLogs ==
  Init /\ [][CallRules \/ CallTransform \/ CallAgain \/ SetShowErrorLogs \/ Done]_vars

\* the calls of the exported helpers and of the class constructor
SpecHelpers ==
  Init /\ [][CallAddPrefixPathVariants \/ CallFindNestedValueForPath \/ CallConstructor
             \/ Done]_vars

-----------------------------------------------------------------------------
(* Properties *)

\* the ErrorObjectErrorResult union
ErrorObjectErrorResult ==
  { "isNullish", "isNotAnObject", "checkIsNullish", "checkIsNotAnObject", "isNotAnArray",
    "checkInputObjectForValuesIsNotAnObject", "checkInputObjectForValuesFailed",
    "checkInputObjectForTypesIsNotAnObject", "checkInputObjectForTypesFailed",
    "checkInputObjectForTypesValueIsArrayFailed", "checkInputObjectForKeysIsNotAnObject",
    "checkInputObjectForKeysFailed", "pathToErrorsIsNotAnArray",
    "pathToErrorsValuesAreNotStrings", "pathToCodeIsInvalid", "pathToCodeIsNotAnArray",
    "pathToCodeValuesAreNotStrings", "pathToNumberCodeIsInvalid",
    "pathToNumberCodeIsNotAnArray", "pathToNumberCodeValuesAreNotStrings",
    "pathToMessageIsInvalid", "pathToMessageIsNotAnArray", "pathToMessageValuesAreNotStrings",
    "pathToDetailsIsInvalid", "pathToDetailsIsNotAnArray", "pathToDetailsValuesAreNotStrings",
    "pathToDomainIsInvalid", "pathToDomainIsNotAnArray", "pathToDomainValuesAreNotStrings",
    "transformIsNotAFunction", "transformResultIsNotAValidObject",
    "transformCodeResultIsNotString", "transformNumberCodeResultIsNotNumber",
    "transformNumberCodeResultIsNaN", "transformMessageResultIsNotString",
    "transformDetailsResultIsNotString", "transformDomainResultIsNotString",
    "buildSummaryIsNullish", "buildSummaryIsNotAnObject",
    "generalBuildSummariesFromObjectError", "generalBuildSummaryFromObjectError",
    "generalCheckInputObjectForValuesError", "unknownCodeOrMessage", "invalidSummary" }

Returned == pc = "returned"

\* the processing errors a record carries, as a sequence
NotesOf(e) == IF e.processingErrors = Undefined THEN <<>> ELSE e.processingErrors.a

\* the summaries the call built, as a sequence (none when it was rejected)
BuiltSeq == IF builtSummaries = Undefined THEN <<>> ELSE builtSummaries.a

\* the transform option of the call, when the options argument sets one
ConfiguredTransform ==
  IF withOptions.t = "object" /\ HasKey(withOptions.o, "transform")
    THEN Get(withOptions, "transform") ELSE DefaultTransform

\* C1: from(payload, options) returns normally for every payload and every
\* options value (a throwing transform and throwing rule evaluation
\* included): no exception leaves the call, force is a record, and when no
\* record could be built the failure shows only as processing errors whose
\* codes belong to the ErrorObjectErrorResult union.
C1_NeverThrows ==
  Returned =>
    /\ ~IsThrown(result)
    /\ result.t = "result"
    /\ result.force.t = "ErrorObject"
    /\ result.error = Undefined =>
         /\ Len(NotesOf(result.force)) > 0
         /\ \A i \in 1..Len(NotesOf(result.force)) :
              /\ NotesOf(result.force)[i].errorCode.t = "string"
              /\ NotesOf(result.force)[i].errorCode.s \in ErrorObjectErrorResult

\* a call whose transform throws has returned a fallback that reports it
C1_Witness ==
  /\ Returned
  /\ ConfiguredTransform = Fn("throws", Undefined)
  /\ ~IsThrown(result)
  /\ result.error = Undefined
  /\ NotesOf(result.force)
       = <<ProcessingError(Str("generalBuildSummaryFromObjectError"), Undefined)>>

\* a summary a candidate produced that is valid: its post-transform code and
\* message are both strings
ProducedValidSummary(x) ==
  /\ x.t = "summary"
  /\ x.value.code # Undefined
  /\ x.value.code.value.t = "string"
  /\ x.value.message # Undefined
  /\ x.value.message.value.t = "string"

RECURSIVE AccumulatedNotes(_, _)
\* the processing errors candidates i.. give rise to: the failure code of a
\* failed candidate, unknownCodeOrMessage with the summary of an invalid one
AccumulatedNotes(sums, i) ==
  IF i > Len(sums) THEN <<>>
  ELSE (IF sums[i].t = "string" THEN <<ProcessingError(sums[i], Undefined)>>
        ELSE IF ProducedValidSummary(sums[i]) THEN <<>>
        ELSE <<ProcessingError(Str("unknownCodeOrMessage"), sums[i])>>)
       \o AccumulatedNotes(sums, i + 1)

\* C2: in the result of from(), error is defined exactly when at least one
\* candidate produced a valid summary; when error is defined, force is that
\* same record; when error is undefined, force is the fallback record and it
\* carries all the processing errors accumulated (the pre-flight failure, or
\* one per candidate).
C2_ErrorIffValidSummary ==
  Returned /\ ~IsThrown(result) =>
    /\ (result.error # Undefined) <=> (\E i \in 1..Len(BuiltSeq) : ProducedValidSummary(BuiltSeq[i]))
    /\ result.error # Undefined => result.force = result.error
    /\ result.error = Undefined =>
         /\ result.force.tag = Str("fallback")
         /\ NotesOf(result.force)
              = IF checksFailed # Undefined THEN <<ProcessingError(checksFailed, Undefined)>>
                ELSE AccumulatedNotes(BuiltSeq, 1)

\* a call on a collection none of whose three candidates is valid returned
\* the fallback with the three processing errors, in candidate order
C2_Witness ==
  /\ Returned
  /\ ~IsThrown(result)
  /\ Len(BuiltSeq) = 3
  /\ result.error = Undefined
  /\ result.force.tag = Str("fallback")
  /\ Len(NotesOf(result.force)) = 3
  /\ NotesOf(result.force)[1].errorCode = Str("buildSummaryIsNotAnObject")
  /\ NotesOf(result.force)[3].errorCode = Str("unknownCodeOrMessage")

\* the options from() works with: the defaults overridden by the argument
Options == MergeOptions(withOptions)

\* x is a list of path strings
IsPathList(x) == x.t = "array" /\ \A i \in 1..Len(x.a) : x.a[i].t = "string"

\* the call gave nothing but pathToErrors: field paths and transform are the
\* defaults
DefaultFieldOptions ==
  /\ Len(Options.o) = Len(DEFAULT_BUILD_OPTIONS.o)
  /\ \A i \in 1..Len(Options.o) :
       Options.o[i].k # "pathToErrors" => Options.o[i] = DEFAULT_BUILD_OPTIONS.o[i]

RECURSIVE FirstNonEmptyArray(_, _, _)
\* the collection as documented: the first of paths[i..] whose value in
\* input is a non-empty array
FirstNonEmptyArray(input, paths, i) ==
  IF i > Len(paths) THEN NoErrorsArray
  ELSE LET found == findNestedValueForPath(input, paths[i])
       IN IF IsArray(found) /\ Len(found.a) > 0
            THEN [t |-> "detected", errors |-> found.a, errorsPath |-> paths[i],
                  didDetectErrorsArray |-> TRUE]
            ELSE FirstNonEmptyArray(input, paths, i + 1)

\* the call passed the pre-flight checks and searched a well-formed
\* pathToErrors list for the collection
DetectorRan ==
  /\ Returned
  /\ builtSummaries # Undefined
  /\ Typeof(value) = "object" /\ ~IsNullish(value)
  /\ IsPathList(Get(Options, "pathToErrors"))

AcceptedCollection == FirstNonEmptyArray(value, Get(Options, "pathToErrors").a, 1)

\* a candidate with a string code and a string message
WellFormedCandidate(c) ==
  c.t = "object" /\ Get(c, "code").t = "string" /\ Get(c, "message").t = "string"

\* e is the record built from candidate c
RecordOfCandidate(e, c) ==
  /\ e.t = "ErrorObject"
  /\ e.code = Get(c, "code")
  /\ e.message = Get(c, "message")
  /\ e.summary.input = c

\* C3: when the collection (the first pathToErrors path that resolves to a
\* non-empty array) holds N >= 1 well-formed candidates, from() returns a
\* primary record built from element 0 whose nextErrors are exactly the
\* records of elements 1..N-1 in array order; for N = 1 no nextErrors list
\* is set.
C3_PrimaryAndNextErrors ==
  (/\ DetectorRan
   /\ DefaultFieldOptions
   /\ Len(AcceptedCollection.errors) >= 1
   /\ \A i \in 1..Len(AcceptedCollection.errors) :
        WellFormedCandidate(AcceptedCollection.errors[i]))
  => LET errors == AcceptedCollection.errors
     IN /\ result.error # Undefined
        /\ RecordOfCandidate(result.error, errors[1])
        /\ IF Len(errors) = 1 THEN result.error.nextErrors = Undefined
           ELSE /\ result.error.nextErrors.t = "array"
                /\ Len(result.error.nextErrors.a) = Len(errors) - 1
                /\ \A i \in 1..(Len(errors) - 1) :
                     RecordOfCandidate(result.error.nextErrors.a[i], errors[i + 1])

\* C10: the candidates are the elements of the first pathToErrors path that
\* resolves to a non-empty array (an empty array is passed over), each built
\* with that path, and a summary is marked didDetectErrorsArray only when
\* such a collection exists.
C10_FirstNonEmptyArrayAccepted ==
  DetectorRan =>
    LET errors == AcceptedCollection.errors
    IN /\ Len(errors) > 0 =>
            /\ Len(BuiltSeq) = Len(errors)
            /\ \A i \in 1..Len(errors) :
                 BuiltSeq[i] = buildSummaryFromObject(errors[i], AcceptedCollection.errorsPath,
                                                      TRUE, Options)
       /\ \A i \in 1..Len(BuiltSeq) :
            (BuiltSeq[i].t = "summary" /\ BuiltSeq[i].didDetectErrorsArray = Bool(TRUE))
              => Len(errors) > 0

\* the codes that name a rule class
RuleClassCodes(name) ==
  CASE name = "checkInputObjectForValues" -> {"checkInputObjectForValuesFailed"}
    [] name = "checkInputObjectForTypes" ->
         {"checkInputObjectForTypesFailed", "checkInputObjectForTypesValueIsArrayFailed"}
    [] name = "checkInputObjectForKeys" -> {"checkInputObjectForKeysFailed"}

\* the rules configured for a class, as [k, v] pairs (none when the class is
\* not configured or its rule set has no entries to read)
ConfiguredRules(name) ==
  IF HasKey(Options.o, name) /\ Get(Options, name).t \in {"object", "array"}
    THEN OwnPairs(Get(Options, name)) ELSE <<>>

\* the payload fails a configured rule of the class
FailsRuleOf(name) ==
  \E i \in 1..Len(ConfiguredRules(name)) :
    LET rule == ConfiguredRules(name)[i].v
        failure == CheckRule(name, rule,
                             findNestedValueForPath(value, Str(ConfiguredRules(name)[i].k)))
    IN rule.t = "object" /\ failure # Undefined /\ ~IsThrown(failure)

\* every configured rule set is an object whose entries are rule objects
WellFormedRuleSets ==
  \A c \in 1..Len(RuleClasses) :
    HasKey(Options.o, RuleClasses[c]) =>
      /\ Get(Options, RuleClasses[c]).t = "object"
      /\ \A i \in 1..Len(ConfiguredRules(RuleClasses[c])) :
           ConfiguredRules(RuleClasses[c])[i].v.t = "object"

\* error is undefined, force is the fallback with exactly one processing
\* error, which names a rule class the payload fails, and nothing was
\* extracted
RejectedByRule ==
  /\ result.error = Undefined
  /\ result.force.tag = Str("fallback")
  /\ Len(NotesOf(result.force)) = 1
  /\ NotesOf(result.force)[1].summary = Undefined
  /\ \E c \in 1..Len(RuleClasses) :
       /\ FailsRuleOf(RuleClasses[c])
       /\ NotesOf(result.force)[1].errorCode.s \in RuleClassCodes(RuleClasses[c])
  /\ builtSummaries = Undefined

\* C4 as stated: every (non-null object) payload that fails a configured values, types or keys
\* rule is rejected with exactly one processing error naming the rule class
\* that failed, and no extraction is attempted.
C4_AnyPayloadFailingRule ==
  (/\ Returned
   /\ Typeof(value) = "object" /\ ~IsNullish(value)
   /\ \E c \in 1..Len(RuleClasses) : FailsRuleOf(RuleClasses[c]))
  => RejectedByRule

\* C4: every non-null object payload that fails a configured values, types
\* or keys rule, the configured rule sets all being objects whose entries are
\* rule objects, is rejected with exactly one processing error naming a rule
\* class that failed, and no extraction is attempted.
C4_RuleFailureRejects ==
  (/\ Returned
   /\ Typeof(value) = "object" /\ ~IsNullish(value)
   /\ WellFormedRuleSets
   /\ \E c \in 1..Len(RuleClasses) : FailsRuleOf(RuleClasses[c]))
  => RejectedByRule

\* a payload that passes the configured values and types rules and fails a
\* keys rule has been rejected with checkInputObjectForKeysFailed
C4_Witness ==
  /\ Returned
  /\ Typeof(value) = "object" /\ ~IsNullish(value)
  /\ WellFormedRuleSets
  /\ Len(ConfiguredRules("checkInputObjectForValues")) > 0
  /\ Len(ConfiguredRules("checkInputObjectForTypes")) > 0
  /\ ~FailsRuleOf("checkInputObjectForValues")
  /\ ~FailsRuleOf("checkInputObjectForTypes")
  /\ FailsRuleOf("checkInputObjectForKeys")
  /\ NotesOf(result.force) = <<ProcessingError(Str("checkInputObjectForKeysFailed"), Undefined)>>
  /\ builtSummaries = Undefined

\* neither default collection path resolves to a non-empty array
NoCollection ==
  \A p \in {"errors", "errs"} :
    ~(IsArray(findNestedValueForPath(value, Str(p)))
      /\ Len(findNestedValueForPath(value, Str(p)).a) > 0)

\* the payload is an object whose code and message are strings, given to
\* from() with default options
StringCodeAndMessage ==
  /\ Returned
  /\ withOptions = Undefined
  /\ value.t = "object"
  /\ Get(value, "code").t = "string"
  /\ Get(value, "message").t = "string"

\* exactly one record, with the payload's code and message
OneMatchingRecord ==
  /\ result.error # Undefined
  /\ result.error.nextErrors = Undefined
  /\ result.error.code = Get(value, "code")
  /\ result.error.message = Get(value, "message")

\* C5 as stated: every payload object whose code and message are strings
\* yields, with default options, exactly one record with that code and
\* message.
C5_AnyStringCodeAndMessage == StringCodeAndMessage => OneMatchingRecord

\* C5: every payload object whose code and message are strings and in which
\* neither errors nor errs resolves to a non-empty array yields, with default
\* options, exactly one record with that code and message.
C5_SingleCandidateRecord == (StringCodeAndMessage /\ NoCollection) => OneMatchingRecord

\* a payload whose code is the empty string has given a record with the
\* empty code
C5_Witness ==
  /\ StringCodeAndMessage
  /\ NoCollection
  /\ Get(value, "code") = Str("")
  /\ Get(value, "message") = Str("E1")
  /\ OneMatchingRecord
  /\ result.error.code = Str("")

\* the members of a summary's value, in the order of Fields
FieldKeys == <<"code", "numberCode", "message", "details", "domain">>

\* the path list configured for field k
FieldPaths(k) == Get(Options, "pathTo" \o Fields[k]).a

\* what path p resolves to in the candidate of summary s
ResolvedIn(s, p) == IF p.t = "string" THEN findNestedValueForPath(s.input, p) ELSE Undefined

\* the winning path summary s records for field k
Winner(s, k) == IF s.value[FieldKeys[k]] = Undefined THEN Undefined ELSE s.value[FieldKeys[k]].path

\* a value field k takes: a string, object or array for the string fields, a
\* number that is not NaN for numberCode
Usable(k, v) ==
  IF Fields[k] = "NumberCode" THEN v.t = "number" /\ ~IsNaN(v)
  ELSE v.t \in {"string", "object", "array"}

\* the summaries of the call
BuiltSummaries == {n \in 1..Len(BuiltSeq) : BuiltSeq[n].t = "summary"}

Records ==
  IF IsThrown(result) \/ result.error = Undefined THEN <<>>
  ELSE <<result.error>>
       \o (IF result.error.nextErrors = Undefined THEN <<>> ELSE result.error.nextErrors.a)

\* a finite number that is not NaN
IsFiniteNumber(v) == v.t = "number" /\ v.k \in {"finite", "fraction"}

\* C8: in every record from() returns (the primary and every nextErrors
\* entry) numberCode, if present, is a finite non-NaN number, and code,
\* message, details and domain, if present, are strings.
C8_RecordFieldTypes ==
  Returned =>
    \A n \in 1..Len(Records) :
      /\ ~IsNullish(Records[n].numberCode) => IsFiniteNumber(Records[n].numberCode)
      /\ \A f \in {"code", "message", "details", "domain"} :
           ~IsNullish(Records[n][f]) => Records[n][f].t = "string"

\* what the configured transform returned for the payload as the one
\* candidate
TransformOutput ==
  ApplyTransform(ConfiguredTransform, BeforeTransform(__processAllValuesFromPaths(value, Options)),
                 value)

\* the failure codes of the fields of state x that are present and of the
\* wrong kind
InvalidFieldCodes(x) ==
  (IF ~IsNullish(Get(x, "code")) /\ Get(x, "code").t # "string"
     THEN {"transformCodeResultIsNotString"} ELSE {})
  \cup
  {c \in {"transformNumberCodeResultIsNotNumber", "transformNumberCodeResultIsNaN"} :
     ~IsNullish(Get(x, "numberCode")) /\ ~IsFiniteNumber(Get(x, "numberCode"))}
  \cup
  {"transform" \o Fields[k] \o "ResultIsNotString" :
     k \in {k \in 3..5 : ~IsNullish(Get(x, FieldKeys[k])) /\ Get(x, FieldKeys[k]).t # "string"}}

\* C9: whenever the transform returns a state in which code, message,
\* details or domain is present and not a string, or numberCode is present
\* and not a finite non-NaN number, buildSummaryFromObject returns the
\* failure code of such a field and never a summary.
C9_InvalidTransformStateRejected ==
  (/\ Returned
   /\ builtSummaries # Undefined
   /\ value.t = "object"
   /\ Len(BuiltSeq) = 1
   /\ ConfiguredTransform.t = "function"
   /\ __processAllValuesFromPaths(value, Options).t = "values"
   /\ TransformOutput.t = "object"
   /\ InvalidFieldCodes(TransformOutput) # {})
  => /\ BuiltSeq[1].t = "string"
     /\ BuiltSeq[1].s \in InvalidFieldCodes(TransformOutput)

\* the candidates as documented: the elements of the collection, or the
\* payload itself when there is none
DocumentedCandidates ==
  IF Len(AcceptedCollection.errors) > 0 THEN AcceptedCollection.errors ELSE <<value>>

\* what summary s holds for field k before the transform
BeforeOf(s, k) ==
  IF s.value[FieldKeys[k]] = Undefined THEN Undefined
  ELSE s.value[FieldKeys[k]].beforeTransform

\* summary s was extracted from candidate c: c is its input and every winning
\* path resolves in c to the value the summary holds
ResolvedAgainst(s, c) ==
  /\ s.input = ObjectToParse(c)
  /\ \A k \in 1..Len(Fields) :
       Winner(s, k) # Undefined =>
         LET found == findNestedValueForPath(ObjectToParse(c), Winner(s, k))
         IN BeforeOf(s, k)
              = IF found.t \in {"object", "array"} THEN JSONStringify(found) ELSE found

\* C11: when an error array is detected, one summary is built per element and
\* every field path is resolved against that element, never against the
\* payload root; when none is found, the payload itself is the sole
\* candidate and all paths are resolved against it.
C11_PathsRelativeToCandidates ==
  DetectorRan =>
    /\ Len(BuiltSeq) = Len(DocumentedCandidates)
    /\ \A n \in BuiltSummaries : ResolvedAgainst(BuiltSeq[n], DocumentedCandidates[n])

\* the candidates the call built its summaries from
BuiltCandidates ==
  Candidates(value, FindErrorsArray(value, Get(Options, "pathToErrors").a, 1))

\* the object a string candidate stands for as documented: what it decodes
\* to when that is a non-null object, the synthetic object otherwise
DocumentedStringCandidate(c) ==
  LET json == JSONParse(c.s)
  IN IF ~IsThrown(json) /\ json.t \in {"object", "array"} THEN json
     ELSE Obj(<<P("code", Str("unknown")), P("message", c)>>)

\* C12: a candidate that is a string is JSON-decoded; when that gives a
\* non-null object the summary is extracted from that object, and when
\* decoding fails or gives no object the summary is extracted from the
\* synthetic object {code: 'unknown', message: <the string>}: with default
\* options a summary with code 'unknown' and the string as message.
C12_StringCandidateDecodedOrSynthetic ==
  (DetectorRan /\ withOptions = Undefined) =>
    \A n \in 1..Len(BuiltCandidates) :
      BuiltCandidates[n].t = "string" =>
        /\ BuiltSeq[n].t = "summary"
        /\ BuiltSeq[n].input = DocumentedStringCandidate(BuiltCandidates[n])
        /\ JSONParse(BuiltCandidates[n].s).t \notin {"object", "array"} =>
             /\ FieldValue(BuiltSeq[n], "code") = Str("unknown")
             /\ FieldValue(BuiltSeq[n], "message") = BuiltCandidates[n]

\* the post-transform code and message summary s records are both strings
HasStringCodeAndMessage(s) ==
  FieldValue(s, "code").t = "string" /\ FieldValue(s, "message").t = "string"

\* the post-transform code and message summary s records are both non-empty
\* strings
HasNonEmptyCodeAndMessage(s) ==
  /\ HasStringCodeAndMessage(s)
  /\ FieldValue(s, "code").s # ""
  /\ FieldValue(s, "message").s # ""

\* summary s gave no record and is reported as a processing error
ReportedNotBuilt(s) ==
  /\ \A r \in 1..Len(Records) : Records[r].summary # s
  /\ \E i \in 1..Len(NotesOf(result.force)) :
       NotesOf(result.force)[i] = ProcessingError(Str("unknownCodeOrMessage"), s)

\* C13 as stated: a record is built only from a summary whose post-transform
\* code and message are both non-empty strings; a candidate whose
\* post-transform code or message is the empty string never yields a record
\* and is reported as a processing error.
C13_OnlyNonEmptyCodeAndMessage ==
  (Returned /\ ~IsThrown(result)) =>
    /\ \A r \in 1..Len(Records) : HasNonEmptyCodeAndMessage(Records[r].summary)
    /\ \A n \in BuiltSummaries :
         (FieldValue(BuiltSeq[n], "code") = Str("") \/ FieldValue(BuiltSeq[n], "message") = Str(""))
           => ReportedNotBuilt(BuiltSeq[n])

\* C13: a record is built exactly from the summaries whose post-transform
\* code and message are both strings, the empty string included, and it
\* carries that code and message; a candidate whose code or message is
\* missing or no string never yields a record and is reported as an
\* unknownCodeOrMessage processing error instead.
C13_RecordsFromStringCodeAndMessage ==
  (Returned /\ ~IsThrown(result)) =>
    /\ \A r \in 1..Len(Records) :
         /\ Records[r].summary.t = "summary"
         /\ HasStringCodeAndMessage(Records[r].summary)
         /\ Records[r].code = FieldValue(Records[r].summary, "code")
         /\ Records[r].message = FieldValue(Records[r].summary, "message")
    /\ \A n \in BuiltSummaries :
         IF HasStringCodeAndMessage(BuiltSeq[n])
           THEN \E r \in 1..Len(Records) : Records[r].summary = BuiltSeq[n]
           ELSE ReportedNotBuilt(BuiltSeq[n])

\* a collection of a candidate with no code between two well-formed ones has
\* given two records and one processing error
C13_Witness ==
  /\ Returned
  /\ Len(BuiltSeq) = 3
  /\ \A n \in 1..3 : BuiltSeq[n].t = "summary"
  /\ HasStringCodeAndMessage(BuiltSeq[1])
  /\ FieldValue(BuiltSeq[2], "code") = Undefined
  /\ FieldValue(BuiltSeq[2], "message") = Str("m3")
  /\ HasStringCodeAndMessage(BuiltSeq[3])
  /\ Len(Records) = 2
  /\ NotesOf(result.force) = <<ProcessingError(Str("unknownCodeOrMessage"), BuiltSeq[2])>>

\* the payload is { code: '', message: m, domain: d } with m and d non-empty
\* strings, given to from() with default options
EmptyCodePayload ==
  /\ Returned
  /\ withOptions = Undefined
  /\ value.t = "object"
  /\ Len(value.o) = 3
  /\ Get(value, "code") = Str("")
  /\ Get(value, "message").t = "string" /\ Get(value, "message").s # ""
  /\ Get(value, "domain").t = "string" /\ Get(value, "domain").s # ""

\* C14: for a payload { code: '', message: m, domain: d } with m and d
\* non-empty strings and default options, from() builds a real record, not
\* the fallback, with code '', message m and domain d: the fields of
\* new ErrorObject({ code: '', message: m, domain: d }).
C14_EmptyCodeRecord ==
  EmptyCodePayload =>
    /\ result.error # Undefined
    /\ result.force = result.error
    /\ result.error.tag # Str("fallback")
    /\ result.error.code = Str("")
    /\ result.error.message = Get(value, "message")
    /\ result.error.domain = Get(value, "domain")
    /\ \A f \in {"code", "numberCode", "message", "details", "domain", "tag"} :
         result.error[f]
           = ErrorObject(Str(""), Get(value, "message"), Undefined, Undefined,
                         Get(value, "domain"), Undefined, Undefined)[f]

\* the call of playground example 12 has returned its record
C14_Witness ==
  /\ EmptyCodePayload
  /\ Get(value, "message") = Str("Something went wrong")
  /\ Get(value, "domain") = Str("auth")
  /\ result.error # Undefined
  /\ result.error.code = Str("")
  /\ result.error.domain = Str("auth")
  /\ result.force.tag = Undefined

\* C15: with the default transform, in every summary: when no string code
\* was found before the transform and a numberCode was found, the
\* post-transform code is the decimal string of numberCode and numberCode is
\* kept; when a string code was found, code is left unchanged; numberCode,
\* message, details and domain are passed through unchanged.
C15_DefaultTransform ==
  (Returned /\ ConfiguredTransform = DefaultTransform) =>
    \A n \in BuiltSummaries :
      /\ (BeforeOf(BuiltSeq[n], 1) = Undefined /\ BeforeOf(BuiltSeq[n], 2).t = "number")
           => /\ FieldValue(BuiltSeq[n], "code")
                   = Str(NumberToString(BeforeOf(BuiltSeq[n], 2)))
              /\ FieldValue(BuiltSeq[n], "numberCode") = BeforeOf(BuiltSeq[n], 2)
      /\ BeforeOf(BuiltSeq[n], 1).t = "string"
           => FieldValue(BuiltSeq[n], "code") = BeforeOf(BuiltSeq[n], 1)
      /\ (BeforeOf(BuiltSeq[n], 1) = Undefined /\ BeforeOf(BuiltSeq[n], 2) = Undefined)
           => FieldValue(BuiltSeq[n], "code") = Undefined
      /\ \A k \in 2..Len(Fields) :
           FieldValue(BuiltSeq[n], FieldKeys[k]) = BeforeOf(BuiltSeq[n], k)

\* README example 6: the payload { error: 'Invalid input data', code: 400 }
\* read with pathToNumberCode naming code has given the record with code
\* '400' and numberCode 400
C15_Witness ==
  /\ Returned
  /\ ConfiguredTransform = DefaultTransform
  /\ value = Obj(<<P("error", Str("Invalid input data")), P("code", Num(400))>>)
  /\ Len(BuiltSeq) = 1
  /\ BuiltSeq[1].t = "summary"
  /\ BeforeOf(BuiltSeq[1], 1) = Undefined
  /\ BeforeOf(BuiltSeq[1], 2) = Num(400)
  /\ result.error # Undefined
  /\ result.error.code = Str("400")
  /\ result.error.numberCode = Num(400)
  /\ result.error.message = Str("Invalid input data")

\* a call of addPrefixPathVariants has returned
PrefixCallReturned == pc = "helper" /\ helper.fn = "addPrefixPathVariants"

\* the prefixes of the call, one prefix being a list of one
PrefixesOf(prefix) == IF prefix.t = "string" THEN <<prefix>> ELSE prefix.a

\* C16: addPrefixPathVariants(prefix, array) returns the original paths in
\* their order followed, for each prefix in prefix order, by every original
\* path prefixed with '<prefix>.' in the original order: the result has
\* |array| * (1 + number of prefixes) entries, every unprefixed path comes
\* before every prefixed one, and an empty prefix list gives the array back.
C16_PrefixVariants ==
  PrefixCallReturned =>
    LET prefixes == PrefixesOf(helper.args[1])
        array == helper.args[2].a
        ret == helper.ret.a
    IN /\ helper.ret.t = "array"
       /\ Len(ret) = Len(array) * (1 + Len(prefixes))
       /\ \A i \in 1..Len(array) : ret[i] = array[i]
       /\ \A j \in 1..Len(prefixes) : \A i \in 1..Len(array) :
            ret[j * Len(array) + i] = Str(prefixes[j].s \o "." \o array[i].s)
       /\ Len(prefixes) = 0 => helper.ret = helper.args[2]

\* two prefixes and two paths have given the two paths, then the two under
\* the first prefix, then the two under the second
C16_Witness ==
  /\ PrefixCallReturned
  /\ helper.args = <<Arr(<<Str("error"), Str("data")>>),
                     Arr(<<Str("code"), Str("context.reason")>>)>>
  /\ helper.ret = Arr(<<Str("code"), Str("context.reason"),
                        Str("error.code"), Str("error.context.reason"),
                        Str("data.code"), Str("data.context.reason")>>)

RECURSIVE DotForm(_)
\* a path with its bracketed indexes written with dots: a[0].b[1] as a.0.b.1
DotForm(s) ==
  IF Len(s) = 0 THEN ""
  ELSE (IF Char(s, 1) = "[" THEN "." ELSE IF Char(s, 1) = "]" THEN "" ELSE Char(s, 1))
       \o DotForm(SubSeq(s, 2, Len(s)))

\* C17: findNestedValueForPath treats bracket and dot index notation alike:
\* for every value and every path, the path written with brackets (one or
\* several bracketed indexes) resolves to what the same path written with
\* dots resolves to.
C17_BracketsEquivalentToDots ==
  (pc = "helper" /\ helper.fn = "findNestedValueForPath") =>
    (helper.args[2].t = "string" =>
       helper.ret = findNestedValueForPath(helper.args[1], Str(DotForm(helper.args[2].s))))

\* from() has returned for the second time with the same payload and options
ReturnedAgain == Returned /\ previous # Undefined

NoUsablePath(k) ==
  \A i \in 1..Len(FieldPaths(k)) : ~Usable(k, ResolvedIn([input |-> value], FieldPaths(k)[i]))

\* an object payload given to from() with default options
ObjectPayloadDefaultOptions ==
  /\ Returned
  /\ withOptions = Undefined
  /\ value.t \in {"object", "array"}

\* error is undefined and force is the fallback with the one processing
\* error unknownCodeOrMessage, the summary of the candidate attached
OnlyUnknownCodeOrMessage ==
  /\ result.error = Undefined
  /\ result.force.tag = Str("fallback")
  /\ Len(NotesOf(result.force)) = 1
  /\ NotesOf(result.force)[1].errorCode = Str("unknownCodeOrMessage")
  /\ NotesOf(result.force)[1].summary.t = "summary"
  /\ NotesOf(result.force)[1].summary = BuiltSeq[1]

\* C19 as stated: every object payload in which no configured code path or
\* no configured message path resolves to a usable value gives, with default
\* options, error undefined and the fallback with exactly one processing
\* error, unknownCodeOrMessage with the candidate's summary.
C19_NoCodeOrNoMessage ==
  (ObjectPayloadDefaultOptions /\ (NoUsablePath(1) \/ NoUsablePath(3)))
    => OnlyUnknownCodeOrMessage

\* C19: every object payload in which no pathToErrors path resolves to a
\* non-empty array and in which no message path resolves to a usable value,
\* or neither a code path nor a numberCode path does, gives, with default
\* options, error undefined and the fallback with exactly one processing
\* error, unknownCodeOrMessage with the payload's summary.
C19_NoCodeSourceOrNoMessage ==
  (/\ ObjectPayloadDefaultOptions
   /\ NoCollection
   /\ (NoUsablePath(1) /\ NoUsablePath(2)) \/ NoUsablePath(3))
    => /\ OnlyUnknownCodeOrMessage
       /\ Len(BuiltSeq) = 1
       /\ BuiltSeq[1].input = value

\* the payload {} has given the fallback with unknownCodeOrMessage and its
\* summary
C19_Witness ==
  /\ ObjectPayloadDefaultOptions
  /\ value = Obj(<<>>)
  /\ NoUsablePath(1) /\ NoUsablePath(2) /\ NoUsablePath(3)
  /\ OnlyUnknownCodeOrMessage
  /\ BuiltSeq[1].input = value

\* a construction of ErrorObjectFromPayload has ended
Constructed == pc = "helper" /\ helper.fn = "ErrorObjectFromPayload"

\* the processing errors a constructed record holds in raw
RawProcessingErrors(e) ==
  IF e.raw.t = "object" /\ Get(e.raw, "processingErrors").t = "array"
    THEN Get(e.raw, "processingErrors").a ELSE <<>>

\* record e is a fallback whose one processing error is code
FallbackReporting(e, code) ==
  /\ e.t = "ErrorObject"
  /\ isFallback(e)
  /\ RawProcessingErrors(e) = <<ProcessingError(Str(code), Undefined)>>

\* C20: new ErrorObjectFromPayload(props, options) never throws, whatever
\* props is: undefined and null give a fallback record (isFallback() true)
\* whose processing error is checkIsNullish, and props that are no object a
\* fallback whose processing error is checkIsNotAnObject.
C20_ConstructorNeverThrows ==
  Constructed =>
    /\ ~IsThrown(helper.ret)
    /\ IsNullish(helper.args[1]) => FallbackReporting(helper.ret, "checkIsNullish")
    /\ (~IsNullish(helper.args[1]) /\ Typeof(helper.args[1]) # "object")
         => FallbackReporting(helper.ret, "checkIsNotAnObject")

\* a call of findNestedValueForPath has returned
ResolveCallReturned == pc = "helper" /\ helper.fn = "findNestedValueForPath"

\* acc[segment], a segment that parses as a number indexing by that number
IndexedBy(acc, segment) ==
  IF IsNaN(ToNumber(segment)) THEN Get(acc, segment)
  ELSE Get(acc, NumberToString(ToNumber(segment)))

RECURSIVE WalkSegments(_, _, _)
\* the value reached from acc by segments[i..]: undefined as soon as the
\* value to index is missing or is no object or array
WalkSegments(segments, i, acc) ==
  IF i > Len(segments) THEN acc
  ELSE IF acc.t \notin {"object", "array"} THEN Undefined
  ELSE WalkSegments(segments, i + 1, IndexedBy(acc, segments[i]))

\* a path string with no empty segment between its dots
HasSegments(path) ==
  /\ path.t = "string"
  /\ path.s # ""
  /\ \A i \in 1..Len(Split(path.s, ".")) : Split(path.s, ".")[i] # ""

\* C21: findNestedValueForPath(value, path) returns the value reached by
\* walking the dot-separated segments of path from value (a segment that
\* parses as a number indexes by that number), returns undefined whenever
\* the path is empty or undefined, the root is missing, or an intermediate
\* value is missing or is no object or array, and never throws, for any
\* value and any path.
C21_WalksDotSegments ==
  ResolveCallReturned =>
    /\ ~IsThrown(helper.ret)
    /\ (helper.args[2] \in {Undefined, Str("")} \/ IsNullish(helper.args[1]))
         => helper.ret = Undefined
    /\ HasSegments(helper.args[2])
         => helper.ret = WalkSegments(Split(helper.args[2].s, "."), 1, helper.args[1])

\* what rule i of a configured class reads in the payload
FoundFor(name, i) == findNestedValueForPath(value, Str(ConfiguredRules(name)[i].k))

\* rule.exists ? miss : !miss
Violated(rule, miss) == IF Truthy(Get(rule, "exists")) THEN miss ELSE ~miss

\* the code the payload earns from rule object `rule` of class c, given what
\* the rule reads; for a type rule array-ness comes before the primitive type
RuleVerdict(c, rule, found) ==
  CASE c = 1 -> IF Violated(rule, ~StrictEquals(found, Get(rule, "value")))
                  THEN Str("checkInputObjectForValuesFailed") ELSE Undefined
    [] c = 2 -> IF Truthy(Get(rule, "valueIsArray")) /\ Violated(rule, ~IsArray(found))
                  THEN Str("checkInputObjectForTypesValueIsArrayFailed")
                ELSE IF Violated(rule, ~StrictEquals(Str(Typeof(found)), Get(rule, "type")))
                  THEN Str("checkInputObjectForTypesFailed")
                ELSE Undefined
    [] c = 3 -> IF Violated(rule, ~Truthy(found))
                  THEN Str("checkInputObjectForKeysFailed") ELSE Undefined

\* the rules of class c the payload violates, as positions in the rule set
ViolatedRules(c) ==
  { i \in 1..Len(ConfiguredRules(RuleClasses[c])) :
      /\ ConfiguredRules(RuleClasses[c])[i].v.t = "object"
      /\ RuleVerdict(c, ConfiguredRules(RuleClasses[c])[i].v, FoundFor(RuleClasses[c], i))
           # Undefined }

\* the failure the fixed order reports for an object payload: that of the
\* first violated rule of the earliest class with a violated rule, none when
\* no rule is violated
OrderedVerdict ==
  IF \A c \in 1..3 : ViolatedRules(c) = {} THEN Undefined
  ELSE LET c == CHOOSE k \in 1..3 :
                  ViolatedRules(k) # {} /\ \A j \in 1..(k - 1) : ViolatedRules(j) = {}
           i == CHOOSE k \in ViolatedRules(c) : \A j \in ViolatedRules(c) : k <= j
       IN RuleVerdict(c, ConfiguredRules(RuleClasses[c])[i].v, FoundFor(RuleClasses[c], i))

\* the nullish and the not-an-object check come first, whatever is configured
PayloadChecksFirst ==
  /\ IsNullish(value) => checksFailed = Str("checkIsNullish")
  /\ (~IsNullish(value) /\ Typeof(value) # "object")
       => checksFailed = Str("checkIsNotAnObject")

\* no configured rule set was reported as being no object
NoRuleSetReported ==
  \A c \in 1..3 : checksFailed # Str(RuleClasses[c] \o "IsNotAnObject")

NotAnObjectOfRules(c) ==
  /\ HasKey(Options.o, RuleClasses[c])
  /\ Get(Options, RuleClasses[c]).t \in {"undefined", "null", "string", "number", "function"}

\* class c is not configured, or is configured with an object of rule
\* objects none of which the payload violates
PassesClass(c) ==
  HasKey(Options.o, RuleClasses[c]) =>
    /\ Get(Options, RuleClasses[c]).t = "object"
    /\ \A i \in 1..Len(ConfiguredRules(RuleClasses[c])) :
         ConfiguredRules(RuleClasses[c])[i].v.t = "object"
    /\ ViolatedRules(c) = {}

\* C23: when one of checkInputObjectForValues, checkInputObjectForTypes and
\* checkInputObjectForKeys is present with a value that is no object of
\* rules (undefined, null, a string, a number, a function), from() rejects
\* the object payload (one the classes before pass) with the code
\* checkInputObjectFor{Values|Types|Keys}IsNotAnObject of that class and
\* returns error undefined.
C23_MalformedRuleSetRejected ==
  Returned =>
    \A c \in 1..3 :
      (/\ Typeof(value) = "object" /\ ~IsNullish(value)
       /\ NotAnObjectOfRules(c)
       /\ \A b \in 1..(c - 1) : PassesClass(b))
        => /\ checksFailed = Str(RuleClasses[c] \o "IsNotAnObject")
           /\ result.error = Undefined
           /\ NotesOf(result.force)
                = <<ProcessingError(Str(RuleClasses[c] \o "IsNotAnObject"), Undefined)>>

\* reading entry i of the rule set of class c throws: the entry is null or
\* undefined, and the entries before it are rule objects the payload does
\* not violate
RuleThrowsAt(c, i) ==
  /\ IsNullish(ConfiguredRules(RuleClasses[c])[i].v)
  /\ \A j \in 1..(i - 1) :
       /\ ConfiguredRules(RuleClasses[c])[j].v.t = "object"
       /\ j \notin ViolatedRules(c)

\* the validator reaches a rule whose evaluation throws: the classes before
\* pass, and class c is an object of rules with such an entry
ValidationThrows ==
  /\ Typeof(value) = "object" /\ ~IsNullish(value)
  /\ \E c \in 1..3 :
       /\ \A b \in 1..(c - 1) : PassesClass(b)
       /\ HasKey(Options.o, RuleClasses[c])
       /\ Get(Options, RuleClasses[c]).t = "object"
       /\ \E i \in 1..Len(ConfiguredRules(RuleClasses[c])) : RuleThrowsAt(c, i)

\* the codes the input validator reports
CheckCodes ==
  {Str("checkIsNullish"), Str("checkIsNotAnObject")}
    \cup {Str(RuleClasses[c] \o "IsNotAnObject") : c \in 1..3}
    \cup {Str(s) : s \in UNION {RuleClassCodes(RuleClasses[c]) : c \in 1..3}}

\* C24: when evaluating a configured pre-flight rule throws inside
\* checkInputForInitialObject (a rule entry that is null or undefined),
\* from() treats the validation as passed: it does not throw, no check
\* failure is reported, and the call goes on to candidate resolution and
\* field extraction, whatever rules the payload violates.
C24_ThrowingRulePasses ==
  (Returned /\ ValidationThrows) =>
    /\ ~IsThrown(result)
    /\ checksFailed = Undefined
    /\ \A n \in 1..Len(NotesOf(result.force)) :
         NotesOf(result.force)[n].errorCode \notin CheckCodes
    /\ Len(BuiltSeq) > 0
    /\ \A n \in 1..Len(BuiltSeq) : BuiltSeq[n].t = "summary" => BuiltSeq[n].input = value

\* a payload that violates the values rule on status has become a record:
\* the rule entry before it is null
C24_Witness ==
  /\ Returned
  /\ ValidationThrows
  /\ 2 \in ViolatedRules(1)
  /\ IsNullish(ConfiguredRules("checkInputObjectForValues")[1].v)
  /\ checksFailed = Undefined
  /\ result.error # Undefined
  /\ result.error.code = Str("E1")

\* from() has returned twice with the same payload and options, once with
\* ErrorObject.SHOW_ERROR_LOGS off and once with it on
ReturnedWithAndWithoutLogs ==
  /\ ReturnedAgain
  /\ Len(logs) = 2
  /\ logs[1].showErrorLogs # logs[2].showErrorLogs

ConstructorRules(c) ==
  IF /\ HasKey(MergeOptions(helper.args[2]).o, RuleClasses[c])
     /\ Get(MergeOptions(helper.args[2]), RuleClasses[c]).t = "object"
    THEN OwnPairs(Get(MergeOptions(helper.args[2]), RuleClasses[c])) ELSE <<>>

\* the props given to the constructor violate a rule of class c
PropsViolate(c) ==
  \E i \in 1..Len(ConstructorRules(c)) :
    /\ ConstructorRules(c)[i].v.t = "object"
    /\ RuleVerdict(c, ConstructorRules(c)[i].v,
                   findNestedValueForPath(helper.args[1], Str(ConstructorRules(c)[i].k)))
         # Undefined

\* every rule set given to the constructor is an object of rule objects
ConstructorRulesWellFormed ==
  \A c \in 1..3 :
    HasKey(MergeOptions(helper.args[2]).o, RuleClasses[c]) =>
      /\ Get(MergeOptions(helper.args[2]), RuleClasses[c]).t = "object"
      /\ \A i \in 1..Len(ConstructorRules(c)) : ConstructorRules(c)[i].v.t = "object"

\* the constructed record is the fallback with the generic code and message
\* whose raw.processingErrors is one entry naming a rule class the props
\* violate
FallbackNamingViolatedClass ==
  /\ helper.ret.t = "ErrorObject"
  /\ isFallback(helper.ret)
  /\ helper.ret.code = Str("unknown")
  /\ helper.ret.message = Str("Something went wrong")
  /\ Len(RawProcessingErrors(helper.ret)) = 1
  /\ \E c \in 1..3 :
       /\ PropsViolate(c)
       /\ RawProcessingErrors(helper.ret)[1].errorCode.s \in RuleClassCodes(RuleClasses[c])

\* C26: for every payload that fails a configured value, type or key
\* pre-flight rule, new ErrorObjectFromPayload(payload, options) is a
\* fallback record (isFallback() true, generic code and message) whose
\* raw.processingErrors holds exactly one entry naming the failed rule class,
\* also when the payload itself has string code and message properties.
C26_ConstructorRejectsFailingPayload ==
  (/\ Constructed
   /\ helper.args[1].t = "object"
   /\ ConstructorRulesWellFormed
   /\ \E c \in 1..3 : PropsViolate(c))
    => FallbackNamingViolatedClass

\* the positions of the candidates whose summary is valid
ValidAt == {n \in 1..Len(BuiltSeq) : ProducedValidSummary(BuiltSeq[n])}

\* the positions of the candidates that failed or whose summary is invalid
InvalidAt == (1..Len(BuiltSeq)) \ ValidAt

\* how many positions of S come no later than n
Rank(S, n) == Cardinality({m \in S : m <= n})

\* candidate n of cands is accounted for once, at its place: a valid one by
\* the record of its rank among the valid ones, any other by the processing
\* error of its rank among the others
AccountedInOrder(cands, n) ==
  IF n \in ValidAt
    THEN /\ Rank(ValidAt, n) <= Len(Records)
         /\ Records[Rank(ValidAt, n)].summary = BuiltSeq[n]
         /\ cands[n].t = "object" => BuiltSeq[n].input = cands[n]
    ELSE /\ Rank(InvalidAt, n) <= Len(NotesOf(result.force))
         /\ <<NotesOf(result.force)[Rank(InvalidAt, n)]>> = AccumulatedNotes(<<BuiltSeq[n]>>, 1)
         /\ (BuiltSeq[n].t = "summary" /\ cands[n].t = "object") => BuiltSeq[n].input = cands[n]

\* every candidate of cands is accounted for exactly once and in order
AccountsFor(cands) ==
  /\ Len(Records) + Len(NotesOf(result.force)) = Len(cands)
  /\ Len(BuiltSeq) = Len(cands)
  /\ \A n \in 1..Len(cands) : AccountedInOrder(cands, n)
  /\ \A n \in 1..Len(cands) :
       (DefaultFieldOptions /\ WellFormedCandidate(cands[n])) =>
         \E k \in 1..Len(Records) : RecordOfCandidate(Records[k], cands[n])

\* C27: for every payload that passes the pre-flight checks, the number of
\* records from() returns (the primary plus its nextErrors) plus the number
\* of processing errors equals the number of candidates (the elements of the
\* first non-empty array found, or the payload itself), records and
\* processing errors both keep candidate order, and a well-formed candidate
\* becomes a record whatever the other candidates are.
C27_CandidatesAccountedOnce ==
  (DetectorRan /\ ~IsThrown(result)) => AccountsFor(DocumentedCandidates)

\* the same accounting over the candidates the call built its summaries from
C27_BuiltCandidatesAccountedOnce ==
  (DetectorRan /\ ~IsThrown(result)) => AccountsFor(BuiltCandidates)

\* the payload was the one candidate and the transform of the call returned
\* for it a state no field of which is rejected
TransformStateAccepted ==
  /\ DetectorRan
  /\ BuiltCandidates = <<value>>
  /\ ConfiguredTransform.t = "function"
  /\ __processAllValuesFromPaths(value, Options).t = "values"
  /\ TransformOutput.t = "object"
  /\ InvalidFieldCodes(TransformOutput) = {}

\* the code and the message of the transform output are both strings
OutputHasStringCodeAndMessage ==
  Get(TransformOutput, "code").t = "string" /\ Get(TransformOutput, "message").t = "string"

\* C29: whether a candidate becomes a record depends only on the
\* post-transform state: a candidate whose accepted transform output has a
\* string code and a string message becomes a record and any other does
\* not, so two candidates with the same output code and message are both
\* valid or both invalid whether or not a code or message path was found
\* before the transform.
C29_ValidityFromTransformOutputOnly ==
  TransformStateAccepted => ((result.error # Undefined) <=> OutputHasStringCodeAndMessage)

\* the same, for outputs whose code and message are not empty
C29_ValidityOfNonEmptyOutput ==
  (/\ TransformStateAccepted
   /\ Get(TransformOutput, "code") # Str("")
   /\ Get(TransformOutput, "message") # Str(""))
  => ((result.error # Undefined) <=> OutputHasStringCodeAndMessage)

\* a call of findNestedValueForPath on an object with one of its own keys
\* that has no dot and no bracket and holds a value
OwnKeyAddressed ==
  /\ ResolveCallReturned
  /\ helper.args[1].t = "object"
  /\ helper.args[2].t = "string"
  /\ HasKey(helper.args[1].o, helper.args[2].s)
  /\ Split(helper.args[2].s, ".") = <<helper.args[2].s>>
  /\ ReplaceFirst(helper.args[2].s, "[") = helper.args[2].s
  /\ ReplaceFirst(helper.args[2].s, "]") = helper.args[2].s
  /\ Get(helper.args[1], helper.args[2].s) # Undefined

\* C30: for every object o and every key k of o that contains no dot and no
\* bracket, findNestedValueForPath(o, k) returns o[k] when o[k] is not
\* undefined, including keys that look numeric but are not canonical
\* integers ('007', '1e2', '0x10', a key made of spaces).
C30_OwnKeyAddressable ==
  OwnKeyAddressed => helper.ret = Get(helper.args[1], helper.args[2].s)

\* the same for the keys that are no number or are the text of their number
C30_CanonicalKeyAddressable ==
  (/\ OwnKeyAddressed
   /\ \/ IsNaN(ToNumber(helper.args[2].s))
      \/ NumberToString(ToNumber(helper.args[2].s)) = helper.args[2].s)
  => helper.ret = Get(helper.args[1], helper.args[2].s)

====
